---------------------------- MODULE Spec2Model ----------------------------
(***************************************************************************)
(* A model of pgraph (github.com/ritamzico/pgraph): the probabilistic      *)
(* adjacency-list graph store, its clone and conditioning, the inference   *)
(* kernels, the query algebra with its concurrent executor, and the DSL    *)
(* session that drives them.                                               *)
(*                                                                         *)
(* Go maps are modelled as TLA+ functions whose DOMAIN is the key set.     *)
(* A *Edge is modelled by the value of the Edge it points to: the code     *)
(* never writes to an Edge after it built it, and inside one graph two     *)
(* different Edge structs never hold the same (ID, From, To), so inside    *)
(* one graph equal values are equal pointers.  NilEdge is the nil pointer. *)
(* Every graph struct lives at an address of the heap, so that "the same   *)
(* graph" and "a copy of the graph" are different things in the model.     *)
(***************************************************************************)
EXTENDS Integers, Sequences, FiniteSets, TLC

(***************************************************************************)
(* Bounds of the model.                                                    *)
(***************************************************************************)
MaxOps == 4

Nodes == {"a", "b", "c"}
EdgeIDs == {"e1", "e2"}

\* graph.Value: a kind and one field per kind.
Value(kind, i, f, str, b) == [Kind |-> kind, I |-> i, F |-> f, S |-> str, B |-> b]

\* Property maps (map[string]Value): the empty map and one map with an entry.
EmptyProps == [k \in {} |-> 0]
SomeProps == [k \in {"w"} |-> Value("IntVal", 7, <<0, 1>>, "", FALSE)]

(***************************************************************************)
(* Probabilities are exact rationals <<num, den>>, den > 0.                *)
(***************************************************************************)
RatLess(x, y) == x[1] * y[2] < y[1] * x[2]
RatLeq(x, y) == x[1] * y[2] <= y[1] * x[2]
RatEq(x, y) == x[1] * y[2] = y[1] * x[2]
RECURSIVE Gcd(_, _)
Gcd(x, y) == IF y = 0 THEN x ELSE Gcd(y, x % y)
RatNorm(x) ==
    IF x[1] = 0 THEN <<0, 1>>
    ELSE LET g == Gcd(x[1], x[2]) IN <<x[1] \div g, x[2] \div g>>
RatMul(x, y) == RatNorm(<<x[1] * y[1], x[2] * y[2]>>)
RatOneMinus(x) == RatNorm(<<x[2] - x[1], x[2]>>)
Zero == <<0, 1>>
One == <<1, 1>>
Half == <<1, 2>>
\* The probabilities the callers pass to AddEdge; the last one is out of range.
ProbInputs == {Half, One, <<3, 2>>}

(***************************************************************************)
(* graph.Edge, graph.Node and the nil *Edge.                               *)
(***************************************************************************)
Edge(id, from, to, prob, props) ==
    [ID |-> id, From |-> from, To |-> to, Probability |-> prob, Props |-> props]
NilEdge == Edge("nil", "nil", "nil", Zero, EmptyProps)
Node(id, props) == [ID |-> id, Props |-> props]

\* Map helpers: delete(m, k) and m[k] = v on a Go map.
MapDelete(m, k) == [x \in DOMAIN m \ {k} |-> m[x]]
MapPut(m, k, v) == [x \in DOMAIN m \cup {k} |-> IF x = k THEN v ELSE m[x]]
EmptyMap == [x \in {} |-> 0]
\* delete(m[k1], k2): a delete on the nil map of an absent k1 does nothing.
MapDelete2(m, k1, k2) ==
    IF k1 \in DOMAIN m THEN MapPut(m, k1, MapDelete(m[k1], k2)) ELSE m

(***************************************************************************)
(* ProbabilisticAdjacencyListGraph                                         *)
(***************************************************************************)
CreateProbAdjListGraph ==
    [nodeMap |-> EmptyMap, edgeMap |-> EmptyMap, out |-> EmptyMap, in |-> EmptyMap]

ContainsNode(g, id) == id \in DOMAIN g.nodeMap
ContainsEdgeByID(g, eid) == eid \in DOMAIN g.edgeMap
\* g.out[fromID][toID]: reading a nil inner map yields "absent".
ContainsEdge(g, from, to) == from \in DOMAIN g.out /\ to \in DOMAIN g.out[from]

\* What an operation of the store hands back: the graph after it, and
\* "ok", "err" (with the error's Kind) or "panic".
Ok(g) == [g |-> g, status |-> "ok", kind |-> ""]
Err(g, kind) == [g |-> g, status |-> "err", kind |-> kind]
Panic(g) == [g |-> g, status |-> "panic", kind |-> ""]

NodeAlreadyExists == "NodeAlreadyExists"
NodeDoesNotExist == "NodeDoesNotExists"
EdgeAlreadyExists == "EdgeAlreadyExists"
EdgeDoesNotExist == "EdgeDoesNotExist"

AddNode(g, id, props) ==
    IF ContainsNode(g, id) THEN Err(g, NodeAlreadyExists)
    ELSE Ok([g EXCEPT !.nodeMap = MapPut(@, id, Node(id, props)),
                      !.out = MapPut(@, id, EmptyMap),
                      !.in = MapPut(@, id, EmptyMap)])

\* The edges of an inner adjacency map in the order the range loop meets them:
\* ord is the order in which this run of the program enumerates node keys.
InOrder(m, ord) ==
    LET keys == SelectSeq(ord, LAMBDA n : n \in DOMAIN m)
    IN [i \in 1..Len(keys) |-> m[keys[i]]]

\* for _, edge := range edges { delete(g.edgeMap, edge.ID) }: edge.ID on a nil
\* *Edge panics, with the edges met before it already deleted.
RECURSIVE DeleteEdgeIDs(_, _)
DeleteEdgeIDs(r, edges) ==
    IF r.status # "ok" \/ edges = <<>> THEN r
    ELSE IF Head(edges) = NilEdge THEN Panic(r.g)
    ELSE DeleteEdgeIDs(Ok([r.g EXCEPT !.edgeMap = MapDelete(@, Head(edges).ID)]),
                       Tail(edges))

RemoveNode(g, id, ord) ==
    IF ~ContainsNode(g, id) THEN Err(g, NodeDoesNotExist)
    ELSE
      LET outgoingEdges == InOrder(g.out[id], ord)
          incomingEdges == InOrder(g.in[id], ord)
          g1 == [g EXCEPT !.nodeMap = MapDelete(@, id)]
          r2 == DeleteEdgeIDs(Ok(g1), outgoingEdges)
          r3 == IF r2.status = "ok"
                THEN DeleteEdgeIDs(Ok([r2.g EXCEPT !.out = MapDelete(@, id)]),
                                   incomingEdges)
                ELSE r2
      IN IF r3.status = "ok"
         THEN Ok([r3.g EXCEPT !.in = MapDelete(@, id)])
         ELSE r3

AddEdge(g, edgeID, from, to, prob, props) ==
    IF ContainsEdgeByID(g, edgeID) THEN Err(g, EdgeAlreadyExists)
    ELSE IF ~ContainsNode(g, from) THEN Err(g, NodeDoesNotExist)
    ELSE IF ~ContainsNode(g, to) THEN Err(g, NodeDoesNotExist)
    ELSE IF RatLess(prob, Zero) \/ RatLess(One, prob)
         THEN Err(g, "InvalidEdgeProbability")
    ELSE
      LET newEdge == Edge(edgeID, from, to, prob, props)
      IN \* a write to the nil map of an absent key panics
         IF from \notin DOMAIN g.out THEN Panic(g)
         ELSE LET g1 == [g EXCEPT !.out = MapPut(@, from, MapPut(@[from], to, newEdge))]
              IN IF to \notin DOMAIN g1.in THEN Panic(g1)
                 ELSE Ok([g1 EXCEPT !.in = MapPut(@, to, MapPut(@[to], from, newEdge)),
                                    !.edgeMap = MapPut(@, edgeID, newEdge)])

RemoveEdge(g, from, to) ==
    IF ~ContainsNode(g, from) THEN Err(g, NodeDoesNotExist)
    ELSE IF ~ContainsNode(g, to) THEN Err(g, NodeDoesNotExist)
    ELSE IF ~ContainsEdge(g, from, to) THEN Err(g, EdgeDoesNotExist)
    ELSE IF g.out[from][to] = NilEdge THEN Panic(g)
    ELSE
      LET edgeID == g.out[from][to].ID
      IN Ok([g EXCEPT !.out = MapDelete2(@, from, to),
                      !.in = MapDelete2(@, to, from),
                      !.edgeMap = MapDelete(@, edgeID)])

RemoveEdgeByID(g, edgeID) ==
    IF ~ContainsEdgeByID(g, edgeID) THEN Err(g, EdgeDoesNotExist)
    ELSE IF g.edgeMap[edgeID] = NilEdge THEN Panic(g)
    ELSE
      LET from == g.edgeMap[edgeID].From
          to == g.edgeMap[edgeID].To
      IN Ok([g EXCEPT !.out = MapDelete2(@, from, to),
                      !.in = MapDelete2(@, to, from),
                      !.edgeMap = MapDelete(@, edgeID)])


\* OutgoingEdges / IncomingEdges, in this run's enumeration order.
OutgoingEdges(g, id, ord) ==
    IF ~ContainsNode(g, id) THEN [status |-> "err", kind |-> NodeDoesNotExist, edges |-> <<>>]
    ELSE [status |-> "ok", kind |-> "",
          edges |-> IF id \in DOMAIN g.out THEN InOrder(g.out[id], ord) ELSE <<>>]

IncomingEdges(g, id, ord) ==
    IF ~ContainsNode(g, id) THEN [status |-> "err", kind |-> NodeDoesNotExist, edges |-> <<>>]
    ELSE [status |-> "ok", kind |-> "",
          edges |-> IF id \in DOMAIN g.in THEN InOrder(g.in[id], ord) ELSE <<>>]

\* GetEdge(from, to)
GetEdge(g, from, to) ==
    IF ~ContainsNode(g, from) THEN [status |-> "err", kind |-> NodeDoesNotExist, edge |-> NilEdge]
    ELSE IF ~ContainsNode(g, to) THEN [status |-> "err", kind |-> NodeDoesNotExist, edge |-> NilEdge]
    ELSE IF ~ContainsEdge(g, from, to) THEN [status |-> "err", kind |-> EdgeDoesNotExist, edge |-> NilEdge]
    ELSE [status |-> "ok", kind |-> "", edge |-> g.out[from][to]]

\* GetEdges: for each node of nodeMap, the values of out[node.ID].
RECURSIVE ConcatAll(_)
ConcatAll(ss) == IF ss = <<>> THEN <<>> ELSE Head(ss) \o ConcatAll(Tail(ss))
GetEdges(g, ord) ==
    LET ns == SelectSeq(ord, LAMBDA n : n \in DOMAIN g.nodeMap)
    IN ConcatAll([i \in 1..Len(ns) |->
                    IF ns[i] \in DOMAIN g.out THEN InOrder(g.out[ns[i]], ord) ELSE <<>>])

(***************************************************************************)
(* Clone.  CloneGraph is the copy the loops of Clone build.  The third     *)
(* loop walks g.out: edge.ID on a nil edge panics, and so does a write to  *)
(* clone.out[from] or clone.in[to] when from or to is no node of the       *)
(* clone (the inner map was never made).                                   *)
(***************************************************************************)
OutPairs(g) == {<<from, to>> \in Nodes \X Nodes :
                    from \in DOMAIN g.out /\ to \in DOMAIN g.out[from]}

ClonePanics(g) ==
    \E ft \in OutPairs(g) :
        \/ g.out[ft[1]][ft[2]] = NilEdge
        \/ ft[1] \notin DOMAIN g.nodeMap
        \/ ft[2] \notin DOMAIN g.nodeMap

CloneGraph(g) ==
    LET nodeMap == [id \in DOMAIN g.nodeMap |->
                        Node(g.nodeMap[id].ID, g.nodeMap[id].Props)]
        edgeMap == [id \in DOMAIN g.edgeMap |->
                        Edge(g.edgeMap[id].ID, g.edgeMap[id].From, g.edgeMap[id].To,
                             g.edgeMap[id].Probability, g.edgeMap[id].Props)]
        clonedEdge(e) == IF e.ID \in DOMAIN edgeMap THEN edgeMap[e.ID] ELSE NilEdge
    IN [nodeMap |-> nodeMap,
        edgeMap |-> edgeMap,
        out |-> [from \in DOMAIN nodeMap |->
                    [to \in {t \in Nodes : <<from, t>> \in OutPairs(g)} |->
                        clonedEdge(g.out[from][to])]],
        in |-> [to \in DOMAIN nodeMap |->
                    [from \in {f \in Nodes : <<f, to>> \in OutPairs(g)} |->
                        clonedEdge(g.out[from][to])]]]

(***************************************************************************)
(* The heap: address -> graph struct.  NoRef is the nil graph.             *)
(***************************************************************************)
NoRef == 0
Alloc(h) == CHOOSE a \in 1..(Cardinality(DOMAIN h) + 1) : a \notin DOMAIN h

\* A Clone that hands back the receiver itself.
CloneAlias(h, a) == [heap |-> h, ref |-> a, status |-> "ok"]

\* Clone allocates a new struct and fills it; g itself is only read.
Clone(h, a) ==
    IF ClonePanics(h[a]) THEN [heap |-> h, ref |-> NoRef, status |-> "panic"]
    ELSE LET c == Alloc(h)
         IN [heap |-> [x \in DOMAIN h \cup {c} |-> IF x = c THEN CloneGraph(h[a]) ELSE h[x]],
             ref |-> c, status |-> "ok"]

(***************************************************************************)
(* graph.Condition and ApplyCondition.                                     *)
(***************************************************************************)
Condition(activeEdges, inactiveEdges, activeNodes, inactiveNodes) ==
    [ForcedActiveEdges |-> activeEdges, ForcedInactiveEdges |-> inactiveEdges,
     ForcedActiveNodes |-> activeNodes, ForcedInactiveNodes |-> inactiveNodes]

\* One pass of the inactive-node loop body on the clone c, for node id.
\* Precondition (checked by the caller): c contains id.
DeactivateNode(c, id) ==
    LET tos == IF id \in DOMAIN c.out THEN DOMAIN c.out[id] ELSE {}
        froms == IF id \in DOMAIN c.in THEN DOMAIN c.in[id] ELSE {}
        in1 == [n \in DOMAIN c.in |->
                    IF n \in tos THEN MapDelete(c.in[n], id) ELSE c.in[n]]
        out1 == [n \in DOMAIN c.out |->
                    IF n \in froms THEN MapDelete(c.out[n], id) ELSE c.out[n]]
    IN [c EXCEPT !.in = MapDelete(in1, id),
                 !.out = MapDelete(out1, id),
                 !.nodeMap = MapDelete(@, id)]

RECURSIVE DeactivateNodes(_, _)
DeactivateNodes(r, ids) ==
    IF r.status # "ok" \/ ids = <<>> THEN r
    ELSE IF ~ContainsNode(r.g, Head(ids)) THEN Err(r.g, "InvalidCondition")
    ELSE DeactivateNodes(Ok(DeactivateNode(r.g, Head(ids))), Tail(ids))

RECURSIVE DeactivateEdges(_, _)
DeactivateEdges(r, edges) ==
    IF r.status # "ok" \/ edges = <<>> THEN r
    ELSE IF Head(edges) = NilEdge THEN Panic(r.g)
    ELSE
      LET from == Head(edges).From
          to == Head(edges).To
      IN IF ~ContainsNode(r.g, from) \/ ~ContainsNode(r.g, to)
         THEN Err(r.g, "InvalidCondition")
         ELSE IF ContainsEdge(r.g, from, to)
              THEN DeactivateEdges(Ok([r.g EXCEPT !.out = MapDelete2(@, from, to),
                                                  !.in = MapDelete2(@, to, from)]),
                                   Tail(edges))
              ELSE DeactivateEdges(r, Tail(edges))

\* The ids of a list, once each (the keys of the inactiveNodes set), as a sequence.
RECURSIVE Dedup(_)
Dedup(s) ==
    IF s = <<>> THEN <<>>
    ELSE LET rest == Dedup(Tail(s))
         IN IF \E i \in 1..Len(rest) : rest[i] = Head(s) THEN rest ELSE <<Head(s)>> \o rest

\* An ApplyCondition that edits the receiver instead of a clone of it.
ApplyConditionInPlace(h, a, condition) ==
    LET r1 == DeactivateNodes(Ok(h[a]), Dedup(condition.ForcedInactiveNodes))
        r2 == DeactivateEdges(r1, condition.ForcedInactiveEdges)
    IN [heap |-> [h EXCEPT ![a] = r2.g],
        ref |-> IF r2.status = "ok" THEN a ELSE NoRef,
        status |-> r2.status, kind |-> r2.kind]

ApplyCondition(h, a, condition) ==
    LET cl == Clone(h, a)
    IN IF cl.status = "panic"
       THEN [heap |-> h, ref |-> NoRef, status |-> "panic", kind |-> ""]
       ELSE
         LET r1 == DeactivateNodes(Ok(cl.heap[cl.ref]), Dedup(condition.ForcedInactiveNodes))
             r2 == DeactivateEdges(r1, condition.ForcedInactiveEdges)
             h2 == [cl.heap EXCEPT ![cl.ref] = r2.g]
         IN IF r2.status = "ok"
            THEN [heap |-> h2, ref |-> cl.ref, status |-> "ok", kind |-> ""]
            ELSE [heap |-> h2, ref |-> NoRef, status |-> r2.status, kind |-> r2.kind]


(***************************************************************************)
(* Inference kernels.                                                      *)
(*                                                                         *)
(* graph.Path; the zero Path (no node, probability 0) is "no path".        *)
(***************************************************************************)
Path(nodeIDs, prob) == [NodeIDs |-> nodeIDs, Probability |-> prob]
NoPath == Path(<<>>, Zero)

(***************************************************************************)
(* The priority queue of MaxProbabilityPath: items in the order pushed;    *)
(* Pop takes an item of least priority, the earliest pushed among equals.  *)
(* The kernel keeps dist = -ln(product of probabilities); the model keeps  *)
(* the product itself, so "priority x is less than priority y" is          *)
(* "product x is greater than product y", and dist = +Inf is product 0.    *)
(* With edge probabilities 0, 1/2 and 1 every dist is a float that depends *)
(* only on the number of 1/2-edges on the way, so the two orders agree.    *)
(***************************************************************************)
PQItem(id, priority) == [ID |-> id, Priority |-> priority]
PQPopIndex(pq) ==
    CHOOSE i \in 1..Len(pq) :
        /\ \A j \in 1..Len(pq) : ~RatLess(pq[i].Priority, pq[j].Priority)
        /\ \A j \in 1..(i - 1) : RatLess(pq[j].Priority, pq[i].Priority)
PQRemove(pq, i) == [j \in 1..(Len(pq) - 1) |-> IF j < i THEN pq[j] ELSE pq[j + 1]]

\* dist[id] of a Go map[NodeID]float64: an absent key reads as 0.0, product 1.
DistOf(dist, id) == IF id \in DOMAIN dist THEN dist[id] ELSE One

\* A relaxation that takes the first way it finds to a node and keeps it.
RECURSIVE RelaxUnreached(_, _, _)
RelaxUnreached(st, u, edges) ==
    IF edges = <<>> THEN st
    ELSE IF Head(edges) = NilEdge THEN [st EXCEPT !.status = "panic"]
    ELSE
      LET edge == Head(edges)
          alt == RatMul(DistOf(st.dist, u), edge.Probability)
      IN IF RatEq(DistOf(st.dist, edge.To), Zero) /\ RatLess(Zero, alt)
         THEN RelaxUnreached([st EXCEPT !.dist = MapPut(@, edge.To, alt),
                                        !.prev = MapPut(@, edge.To, u),
                                        !.pq = Append(@, PQItem(edge.To, alt))],
                             u, Tail(edges))
         ELSE RelaxUnreached(st, u, Tail(edges))

\* The relaxation loop over the outgoing edges of u.
RECURSIVE Relax(_, _, _)
Relax(st, u, edges) ==
    IF edges = <<>> THEN st
    ELSE IF Head(edges) = NilEdge THEN [st EXCEPT !.status = "panic"]
    ELSE
      LET edge == Head(edges)
          alt == RatMul(DistOf(st.dist, u), edge.Probability)
      IN IF RatLess(DistOf(st.dist, edge.To), alt)
         THEN Relax([st EXCEPT !.dist = MapPut(@, edge.To, alt),
                               !.prev = MapPut(@, edge.To, u),
                               !.pq = Append(@, PQItem(edge.To, alt))],
                    u, Tail(edges))
         ELSE Relax(st, u, Tail(edges))

\* for pq.Len() > 0 { ... }
RECURSIVE DijkstraLoop(_, _, _, _)
DijkstraLoop(g, end, ord, st) ==
    IF st.status # "ok" \/ st.pq = <<>> THEN st
    ELSE
      LET i == PQPopIndex(st.pq)
          curr == st.pq[i]
          u == curr.ID
          st1 == [st EXCEPT !.pq = PQRemove(@, i)]
      IN IF u = end THEN st1
         ELSE IF RatLess(curr.Priority, DistOf(st1.dist, u))
              THEN DijkstraLoop(g, end, ord, st1)
         ELSE
           LET oe == OutgoingEdges(g, u, ord)
           IN IF oe.status # "ok"
              THEN [st1 EXCEPT !.status = "err", !.kind = oe.kind]
              ELSE DijkstraLoop(g, end, ord, Relax(st1, u, oe.edges))

\* Reconstruct the path from prev, back from at to start.
RECURSIVE PathBack(_, _, _)
PathBack(prev, start, at) ==
    IF at = start THEN <<at>>
    ELSE Append(PathBack(prev, start, prev[at]), at)

MaxProbabilityPath(g, start, end, ord) ==
    IF ~ContainsNode(g, start)
    THEN [status |-> "err", kind |-> "NodeDoesNotExist", path |-> NoPath]
    ELSE IF ~ContainsNode(g, end)
    THEN [status |-> "err", kind |-> "NodeDoesNotExist", path |-> NoPath]
    ELSE
      LET dist0 == [n \in DOMAIN g.nodeMap |-> IF n = start THEN One ELSE Zero]
          st == DijkstraLoop(g, end, ord,
                    [dist |-> dist0, prev |-> EmptyMap,
                     pq |-> <<PQItem(start, One)>>, status |-> "ok", kind |-> ""])
      IN IF st.status # "ok"
         THEN [status |-> st.status, kind |-> st.kind, path |-> NoPath]
         ELSE IF RatEq(DistOf(st.dist, end), Zero)
         THEN [status |-> "ok", kind |-> "", path |-> NoPath]
         ELSE [status |-> "ok", kind |-> "",
               path |-> Path(PathBack(st.prev, start, end), DistOf(st.dist, end))]


(***************************************************************************)
(* TopKMaxProbabilityPaths (Yen).  Go's 0-based spurIdx is kept; sequences *)
(* here are 1-based, so p.NodeIDs[spurIdx] is written NodeIDs[spurIdx+1].  *)
(***************************************************************************)
equalNodePrefix(a, b) ==
    IF Len(a) < Len(b) THEN FALSE
    ELSE \A i \in 1..Len(b) : a[i] = b[i]

\* pathProbability against g; "panic" when GetEdge hands back a nil edge.
RECURSIVE pathProbabilityFrom(_, _, _, _)
pathProbabilityFrom(g, nodes, i, prob) ==
    IF i > Len(nodes) - 1 THEN [status |-> "ok", prob |-> prob]
    ELSE LET ge == GetEdge(g, nodes[i], nodes[i + 1])
         IN IF ge.status # "ok" THEN [status |-> "ok", prob |-> Zero]
            ELSE IF ge.edge = NilEdge THEN [status |-> "panic", prob |-> Zero]
            ELSE pathProbabilityFrom(g, nodes, i + 1, RatMul(prob, ge.edge.Probability))
pathProbability(g, nodes) == pathProbabilityFrom(g, nodes, 1, One)

\* "Remove edges that would recreate previous paths", on the clone at c.
\* hs = [heap, status].  The error of RemoveEdge is dropped, as in the code.
RECURSIVE RemoveRootEdges(_, _, _, _, _)
RemoveRootEdges(hs, c, results, rootPathNodes, spurIdx) ==
    IF hs.status # "ok" \/ results = <<>> THEN hs
    ELSE
      LET p == Head(results)
      IN IF Len(p.NodeIDs) > spurIdx /\ equalNodePrefix(p.NodeIDs, rootPathNodes)
         THEN IF Len(p.NodeIDs) < spurIdx + 2
              THEN [hs EXCEPT !.status = "panic"]     \* index out of range
              ELSE
                LET r == RemoveEdge(hs.heap[c], p.NodeIDs[spurIdx + 1], p.NodeIDs[spurIdx + 2])
                    hs1 == [heap |-> [hs.heap EXCEPT ![c] = r.g],
                            status |-> IF r.status = "panic" THEN "panic" ELSE "ok"]
                IN RemoveRootEdges(hs1, c, Tail(results), rootPathNodes, spurIdx)
         ELSE RemoveRootEdges(hs, c, Tail(results), rootPathNodes, spurIdx)

\* The loop over spurIdx for one prevPath.  st = [heap, results, candidates, status].
\* The body is cut at each value it computes: the clone (SpurCloned), the
\* clone with the root edges removed (SpurPruned), the spur path (SpurFound)
\* and the candidate's probability (SpurCandidate).
RECURSIVE SpurLoop(_, _, _, _, _, _)

SpurCandidate(st1, a, end, ord, prevPath, spurIdx, fullNodes, fp) ==
    LET isDuplicate ==
            \E i \in 1..Len(st1.candidates) :
                /\ Len(st1.candidates[i].NodeIDs) = Len(fullNodes)
                /\ equalNodePrefix(st1.candidates[i].NodeIDs, fullNodes)
    IN IF fp.status = "panic" THEN [st1 EXCEPT !.status = "panic"]
       ELSE SpurLoop(
              IF isDuplicate THEN st1
              ELSE [st1 EXCEPT !.candidates = Append(@, Path(fullNodes, fp.prob))],
              a, end, ord, prevPath, spurIdx + 1)

SpurJoined(st1, a, end, ord, prevPath, spurIdx, fullNodes) ==
    SpurCandidate(st1, a, end, ord, prevPath, spurIdx, fullNodes,
                  pathProbability(st1.heap[a], fullNodes))

SpurFound(st1, a, end, ord, prevPath, spurIdx, sp) ==
    IF sp.status = "panic" THEN [st1 EXCEPT !.status = "panic"]
    ELSE IF sp.status = "err" \/ Len(sp.path.NodeIDs) = 0
         THEN SpurLoop(st1, a, end, ord, prevPath, spurIdx + 1)
    ELSE SpurJoined(st1, a, end, ord, prevPath, spurIdx,
                    SubSeq(prevPath.NodeIDs, 1, spurIdx) \o sp.path.NodeIDs)

SpurPruned(st, a, end, ord, prevPath, spurIdx, c, hs) ==
    IF hs.status # "ok" THEN [st EXCEPT !.heap = hs.heap, !.status = "panic"]
    ELSE SpurFound([st EXCEPT !.heap = hs.heap], a, end, ord, prevPath, spurIdx,
                   MaxProbabilityPath(hs.heap[c], prevPath.NodeIDs[spurIdx + 1], end, ord))

SpurCloned(st, a, end, ord, prevPath, spurIdx, cl) ==
    IF cl.status # "ok" THEN [st EXCEPT !.status = "panic"]
    ELSE SpurPruned(st, a, end, ord, prevPath, spurIdx, cl.ref,
                    RemoveRootEdges([heap |-> cl.heap, status |-> "ok"], cl.ref,
                                    st.results, SubSeq(prevPath.NodeIDs, 1, spurIdx + 1),
                                    spurIdx))

SpurLoop(st, a, end, ord, prevPath, spurIdx) ==
    IF st.status # "ok" \/ ~(spurIdx < Len(prevPath.NodeIDs) - 1) THEN st
    ELSE SpurCloned(st, a, end, ord, prevPath, spurIdx, Clone(st.heap, a))

\* "Pick best candidate": the first one of the greatest probability.
BestIdx(candidates) ==
    CHOOSE j \in 1..Len(candidates) :
        /\ \A i \in 1..Len(candidates) :
                ~RatLess(candidates[j].Probability, candidates[i].Probability)
        /\ \A i \in 1..(j - 1) :
                RatLess(candidates[i].Probability, candidates[j].Probability)

\* for i := 1; i < k; i++ { ... }; YenPick is the loop body after the spur loop.
RECURSIVE YenLoop(_, _, _, _, _, _)

YenMove(st1, a, end, ord, k, i, b) ==
    YenLoop([st1 EXCEPT !.results = Append(@, st1.candidates[b]),
                        !.candidates = PQRemove(@, b)],
            a, end, ord, k, i + 1)

YenPick(st1, a, end, ord, k, i) ==
    IF st1.status # "ok" \/ Len(st1.candidates) = 0 THEN st1
    ELSE YenMove(st1, a, end, ord, k, i, BestIdx(st1.candidates))

YenLoop(st, a, end, ord, k, i) ==
    IF st.status # "ok" \/ ~(i < k) THEN st
    ELSE YenPick(SpurLoop(st, a, end, ord, st.results[i], 0), a, end, ord, k, i)

TopKResult(st) ==
    [heap |-> st.heap, status |-> st.status, kind |-> "",
     paths |-> IF st.status = "ok" THEN st.results ELSE <<>>]

TopKFrom(h, a, end, k, ord, first) ==
    IF first.status # "ok"
    THEN [heap |-> h, status |-> first.status, kind |-> first.kind, paths |-> <<>>]
    ELSE IF Len(first.path.NodeIDs) = 0
    THEN [heap |-> h, status |-> "ok", kind |-> "", paths |-> <<>>]
    ELSE TopKResult(YenLoop([heap |-> h, results |-> <<first.path>>,
                             candidates |-> <<>>, status |-> "ok"],
                            a, end, ord, k, 1))

\* Hands back [heap, status, kind, paths]; the graph is the one at address a.
TopKMaxProbabilityPaths(h, a, start, end, k, ord) ==
    IF k <= 0
    THEN [heap |-> h, status |-> "err", kind |-> "", paths |-> <<>>]
    ELSE TopKFrom(h, a, end, k, ord, MaxProbabilityPath(h[a], start, end, ord))


(***************************************************************************)
(* Exact reachability: dfsProbabilisticReachability.  visited is the set   *)
(* of nodes on the recursion stack (the deferred delete takes a node off   *)
(* when its call returns); memo is threaded through the calls.             *)
(* A call hands back [val, memo, status, kind].                            *)
(***************************************************************************)
RECURSIVE dfsProbabilisticReachability(_, _, _, _, _, _)
RECURSIVE dfsEdgeLoop(_, _, _, _, _, _, _)
dfsProbabilisticReachability(g, current, end, visited, memo, ord) ==
    IF current = end THEN [val |-> One, memo |-> memo, status |-> "ok", kind |-> ""]
    ELSE IF current \in DOMAIN memo
    THEN [val |-> memo[current], memo |-> memo, status |-> "ok", kind |-> ""]
    ELSE IF current \in visited
    THEN [val |-> Zero, memo |-> memo, status |-> "ok", kind |-> ""]
    ELSE
      LET oe == OutgoingEdges(g, current, ord)
      IN IF oe.status # "ok"
         THEN [val |-> Zero, memo |-> memo, status |-> "err", kind |-> oe.kind]
         ELSE IF Len(oe.edges) = 0
         THEN [val |-> Zero, memo |-> MapPut(memo, current, Zero),
               status |-> "ok", kind |-> ""]
         ELSE
           LET r == dfsEdgeLoop(g, oe.edges, end, visited \cup {current}, memo, One, ord)
           IN IF r.status # "ok" THEN r
              ELSE LET result == RatOneMinus(r.val)
                   IN [val |-> result, memo |-> MapPut(r.memo, current, result),
                       status |-> "ok", kind |-> ""]

\* for _, edge := range edges { ... failProb *= 1.0 - successViaEdge }
dfsEdgeLoop(g, edges, end, visited, memo, failProb, ord) ==
    IF edges = <<>> THEN [val |-> failProb, memo |-> memo, status |-> "ok", kind |-> ""]
    ELSE IF Head(edges) = NilEdge
    THEN [val |-> Zero, memo |-> memo, status |-> "panic", kind |-> ""]
    ELSE
      LET edge == Head(edges)
          child == dfsProbabilisticReachability(g, edge.To, end, visited, memo, ord)
      IN IF child.status # "ok" THEN [child EXCEPT !.val = Zero]
         ELSE LET successViaEdge == RatMul(edge.Probability, child.val)
              IN dfsEdgeLoop(g, Tail(edges), end, visited, child.memo,
                             RatMul(failProb, RatOneMinus(successViaEdge)), ord)

\* A reachability that answers with the probability of the best path alone.
ReachabilityViaBestPath(g, start, end, ord) ==
    LET r == MaxProbabilityPath(g, start, end, ord)
    IN [val |-> r.path.Probability, memo |-> EmptyMap, status |-> r.status, kind |-> r.kind]

ReachabilityProbability(g, start, end, ord) ==
    dfsProbabilisticReachability(g, start, end, {}, EmptyMap, ord)

(***************************************************************************)
(* bfsDeterministicReachability over the edges the mask keeps.             *)
(* Hands back [status, kind, reachable].                                   *)
(***************************************************************************)
\* edgeMask[edge] of a Go map[*Edge]bool: an absent key reads as false.
MaskOf(edgeMask, edge) == edge \in DOMAIN edgeMask /\ edgeMask[edge]

RECURSIVE bfsEnqueue(_, _, _)
bfsEnqueue(vq, edges, edgeMask) ==
    IF edges = <<>> THEN vq
    ELSE IF ~MaskOf(edgeMask, Head(edges)) \/ Head(edges).To \in vq.visited
         THEN bfsEnqueue(vq, Tail(edges), edgeMask)
         ELSE bfsEnqueue([visited |-> vq.visited \cup {Head(edges).To},
                          queue |-> Append(vq.queue, Head(edges).To)],
                         Tail(edges), edgeMask)

RECURSIVE bfsLoop(_, _, _, _, _)
bfsLoop(g, end, edgeMask, vq, ord) ==
    IF vq.queue = <<>> THEN [status |-> "ok", kind |-> "", reachable |-> FALSE]
    ELSE
      LET current == Head(vq.queue)
          vq1 == [vq EXCEPT !.queue = Tail(@)]
      IN IF current = end THEN [status |-> "ok", kind |-> "", reachable |-> TRUE]
         ELSE
           LET oe == OutgoingEdges(g, current, ord)
           IN IF oe.status # "ok"
              THEN [status |-> "err", kind |-> oe.kind, reachable |-> FALSE]
              ELSE bfsLoop(g, end, edgeMask, bfsEnqueue(vq1, oe.edges, edgeMask), ord)

bfsDeterministicReachability(g, start, end, edgeMask, ord) ==
    IF ~ContainsNode(g, start)
    THEN [status |-> "err", kind |-> "NodeDoesNotExist", reachable |-> FALSE]
    ELSE IF ~ContainsNode(g, end)
    THEN [status |-> "err", kind |-> "NodeDoesNotExist", reachable |-> FALSE]
    ELSE bfsLoop(g, end, edgeMask, [visited |-> {start}, queue |-> <<start>>], ord)

(***************************************************************************)
(* The world sampler.  The generator stands for math/rand/v2's PCG: a      *)
(* state that each draw advances, the same stream for the same seed.       *)
(* RngFloat is Float64() as a rational in [0, 1).                          *)
(***************************************************************************)
RngSeed(seed, workerID) == (seed + workerID) % 8
RngNext(s) == (5 * s + 3) % 8
RngFloat(s) == <<s, 8>>

\* IndependentEdgeSampler.Sample: one draw per edge, in the order GetEdges
\* lists the edges.  Hands back [status, rng, edgeMask].
RECURSIVE SampleLoop(_, _, _)
SampleLoop(edges, rng, edgeMask) ==
    IF edges = <<>> THEN [status |-> "ok", rng |-> rng, edgeMask |-> edgeMask]
    ELSE IF Head(edges) = NilEdge
    THEN [status |-> "panic", rng |-> rng, edgeMask |-> edgeMask]
    ELSE LET r == RngNext(rng)
         IN SampleLoop(Tail(edges), r,
                       MapPut(edgeMask, Head(edges),
                              RatLeq(RngFloat(r), Head(edges).Probability)))

Sample(g, rng, ord) == SampleLoop(GetEdges(g, ord), rng, EmptyMap)

\* One trial of a worker: sample a world, then test reachability in it.
\* w = [rng, successes, done, status, kind]; ord is this trial's enumeration order.
Trial(g, start, end, w, ord) ==
    LET sw == Sample(g, w.rng, ord)
    IN IF sw.status # "ok" THEN [w EXCEPT !.status = sw.status]
       ELSE LET b == bfsDeterministicReachability(g, start, end, sw.edgeMask, ord)
            IN IF b.status # "ok"
               THEN [w EXCEPT !.rng = sw.rng, !.status = b.status, !.kind = b.kind]
               ELSE [w EXCEPT !.rng = sw.rng, !.done = @ + 1,
                              !.successes = IF b.reachable THEN @ + 1 ELSE @]

NewWorker(seed, workerID) ==
    [rng |-> RngSeed(seed, workerID), successes |-> 0, done |-> 0,
     status |-> "ok", kind |-> ""]

\* The trials worker w of numWorkers gets out of numSamples.
TrialsOf(numSamples, numWorkers, w) ==
    (numSamples \div numWorkers) + (IF w < numSamples % numWorkers THEN 1 ELSE 0)

RECURSIVE RunWorker(_, _, _, _, _, _)
RunWorker(g, start, end, w, trials, ord) ==
    IF w.status # "ok" \/ w.done >= trials THEN w
    ELSE RunWorker(g, start, end, Trial(g, start, end, w, ord), trials, ord)

\* result.SampleResult, without the fields that need a square root.
SampleResult(successes, trials, numSamples) ==
    LET p == RatNorm(<<successes, trials>>)
    IN [Estimate |-> p, NumSamples |-> numSamples,
        Variance |-> RatMul(p, RatOneMinus(p))]

\* ReachabilityProbabilityMonteCarlo with every trial enumerating in order ord.
\* Hands back [status, kind, sample].
ReachabilityProbabilityMonteCarlo(g, start, end, numSamples, seed, numCPU, ord) ==
    IF numSamples <= 0
    THEN [status |-> "err", kind |-> "", sample |-> SampleResult(0, 1, 0)]
    ELSE
      LET numWorkers == IF numCPU < numSamples THEN numCPU ELSE numSamples
          ws == [i \in 0..(numWorkers - 1) |->
                    RunWorker(g, start, end, NewWorker(seed, i),
                              TrialsOf(numSamples, numWorkers, i), ord)]
          RECURSIVE Sum(_, _)
          Sum(f, i) == IF i < 0 THEN 0 ELSE f[i] + Sum(f, i - 1)
          succ == Sum([i \in 0..(numWorkers - 1) |-> ws[i].successes], numWorkers - 1)
          tot == Sum([i \in 0..(numWorkers - 1) |-> ws[i].done], numWorkers - 1)
      IN IF \E i \in 0..(numWorkers - 1) : ws[i].status = "panic"
         THEN [status |-> "panic", kind |-> "", sample |-> SampleResult(0, 1, 0)]
         ELSE IF \E i \in 0..(numWorkers - 1) : ws[i].status = "err"
         THEN [status |-> "err",
               kind |-> (CHOOSE k \in {ws[i].kind : i \in {j \in 0..(numWorkers - 1) :
                                                    ws[j].status = "err"}} : TRUE),
               sample |-> SampleResult(0, 1, 0)]
         ELSE [status |-> "ok", kind |-> "", sample |-> SampleResult(succ, tot, numSamples)]


(***************************************************************************)
(* Results (package result) and reducers.                                  *)
(***************************************************************************)
PathResult(path) == [kind |-> "path", Path |-> path]
PathsResult(paths) == [kind |-> "paths", Paths |-> paths]
ProbabilityResult(p) == [kind |-> "probability", Probability |-> p]
SampleResultOf(sample) == [kind |-> "sample", Sample |-> sample]
BooleanResult(b) == [kind |-> "boolean", Value |-> b]
MultiResult(results) == [kind |-> "multi", Results |-> results]
NoResult == [kind |-> "none"]

\* result.ProbabilisticResult: the variants with a ProbabilityValue method.
IsProbabilisticResult(r) == r.kind \in {"path", "probability", "sample"}
ProbabilityValue(r) ==
    CASE r.kind = "path" -> r.Path.Probability
      [] r.kind = "probability" -> r.Probability
      [] r.kind = "sample" -> r.Sample.Estimate
      [] OTHER -> Zero

RatAdd(x, y) == RatNorm(<<x[1] * y[2] + y[1] * x[2], x[2] * y[2]>>)
RatDivInt(x, n) == RatNorm(<<x[1], x[2] * n>>)

RECURSIVE SeqSum(_)
SeqSum(ps) == IF ps = <<>> THEN Zero ELSE RatAdd(Head(ps), SeqSum(Tail(ps)))
RECURSIVE SeqMax(_, _)
SeqMax(ps, m) ==
    IF ps = <<>> THEN m
    ELSE SeqMax(Tail(ps), IF RatLess(m, Head(ps)) THEN Head(ps) ELSE m)
RECURSIVE SeqMin(_, _)
SeqMin(ps, m) ==
    IF ps = <<>> THEN m
    ELSE SeqMin(Tail(ps), IF RatLess(Head(ps), m) THEN Head(ps) ELSE m)
RECURSIVE BestOf(_, _, _)
BestOf(rs, best, found) ==
    IF rs = <<>> THEN best
    ELSE IF ~found \/ RatLess(best.Probability, Head(rs).Path.Probability)
         THEN BestOf(Tail(rs), Head(rs).Path, TRUE)
         ELSE BestOf(Tail(rs), best, found)

\* What Execute and the reducers hand back, besides the heap.
OkRes(res) == [status |-> "ok", kind |-> "", res |-> res]
ErrRes(kind) == [status |-> "err", kind |-> kind, res |-> NoResult]
PanicRes == [status |-> "panic", kind |-> "", res |-> NoResult]

\* The reducers' errors are built with fmt.Errorf: they carry no Kind.
MeanProbabilityReducer(results) ==
    IF \E i \in 1..Len(results) : results[i].kind # "probability" THEN ErrRes("")
    ELSE OkRes(ProbabilityResult(
            RatDivInt(SeqSum([i \in 1..Len(results) |-> results[i].Probability]),
                      Len(results))))
BestPathReducer(results) ==
    IF \E i \in 1..Len(results) : results[i].kind # "path" THEN ErrRes("")
    ELSE OkRes(PathResult(BestOf(results, NoPath, FALSE)))
MaxProbabilityReducer(results) ==
    IF \E i \in 1..Len(results) : ~IsProbabilisticResult(results[i]) THEN ErrRes("")
    ELSE OkRes(ProbabilityResult(
            SeqMax([i \in 1..Len(results) |-> ProbabilityValue(results[i])], Zero)))
MinProbabilityReducer(results) ==
    IF \E i \in 1..Len(results) : ~IsProbabilisticResult(results[i]) THEN ErrRes("")
    ELSE OkRes(ProbabilityResult(
            SeqMin([i \in 1..Len(results) |-> ProbabilityValue(results[i])], One)))
CountAboveThresholdReducer(threshold, results) ==
    IF \E i \in 1..Len(results) : ~IsProbabilisticResult(results[i]) THEN ErrRes("")
    ELSE OkRes(ProbabilityResult(RatNorm(
            <<Cardinality({i \in 1..Len(results) :
                             RatLeq(threshold, ProbabilityValue(results[i]))}),
              Len(results)>>)))

Reduce(reducer, results) ==
    CASE reducer.name = "Mean" -> MeanProbabilityReducer(results)
      [] reducer.name = "BestPath" -> BestPathReducer(results)
      [] reducer.name = "Max" -> MaxProbabilityReducer(results)
      [] reducer.name = "Min" -> MinProbabilityReducer(results)
      [] OTHER -> CountAboveThresholdReducer(reducer.Threshold, results)

(***************************************************************************)
(* Queries (package query).                                                *)
(***************************************************************************)
MaxProbabilityPathQuery(start, end) == [type |-> "MaxPath", Start |-> start, End |-> end]
TopKProbabilityPathsQuery(start, end, k) ==
    [type |-> "TopK", Start |-> start, End |-> end, K |-> k]
ReachabilityProbabilityQuery(start, end, mode, seed) ==
    [type |-> "Reach", Start |-> start, End |-> end, Mode |-> mode, Seed |-> seed]
ConditionalQuery(condition, inner) ==
    [type |-> "Cond", Condition |-> condition, Inner |-> inner]
MultiQuery(queries) == [type |-> "Multi", Queries |-> queries]
AndQuery(queries) == [type |-> "And", Queries |-> queries]
OrQuery(queries) == [type |-> "Or", Queries |-> queries]
ThresholdQuery(inner, threshold) ==
    [type |-> "Threshold", Inner |-> inner, Threshold |-> threshold]
AggregateQuery(queries, reducer) ==
    [type |-> "Aggregate", Queries |-> queries, Reducer |-> reducer]

\* The samples a Monte-Carlo query draws and the workers it splits them over
\* (10000 and GOMAXPROCS in the program).
NumSamples == 2
NumCPU == 2

RECURSIVE SeqProd(_)
SeqProd(ps) == IF ps = <<>> THEN One ELSE RatMul(Head(ps), SeqProd(Tail(ps)))

AndReduce(results) ==
    IF \E i \in 1..Len(results) : ~IsProbabilisticResult(results[i])
    THEN ErrRes("TypeMismatch")
    ELSE OkRes(ProbabilityResult(
            SeqProd([i \in 1..Len(results) |-> ProbabilityValue(results[i])])))
OrReduce(results) ==
    IF \E i \in 1..Len(results) : ~IsProbabilisticResult(results[i])
    THEN ErrRes("TypeMismatch")
    ELSE OkRes(ProbabilityResult(RatOneMinus(
            SeqProd([i \in 1..Len(results) |->
                        RatOneMinus(ProbabilityValue(results[i]))]))))

\* The outcome of a composite from the outcomes of its sub-queries, in input
\* order: a panicking task takes the process down; otherwise an error of a
\* sub-query is handed back (the race for which one is in the executor's own
\* specification below; here it is the first in input order); otherwise
\* results[i] is the result of queries[i].
Gather(outs) ==
    IF \E i \in 1..Len(outs) : outs[i].status = "panic" THEN PanicRes
    ELSE IF \E i \in 1..Len(outs) : outs[i].status = "err"
    THEN LET i == CHOOSE j \in 1..Len(outs) :
                    outs[j].status = "err" /\ \A l \in 1..(j - 1) : outs[l].status # "err"
         IN ErrRes(outs[i].kind)
    ELSE OkRes(MultiResult([i \in 1..Len(outs) |-> outs[i].res]))

\* A context that is never seen as done.
NeverDone(ctx) == FALSE

\* select { case <-ctx.Done(): return nil, ctx.Err(); default: }
Done(ctx) == ctx = "cancelled"

\* A threshold that equality does not reach.
ThresholdValueStrict(threshold, res) ==
    BooleanResult(RatLess(threshold, ProbabilityValue(res)))

\* result.BooleanResult{Value: probabilisticResult.ProbabilityValue() >= q.Threshold}
ThresholdValue(threshold, res) ==
    BooleanResult(RatLeq(threshold, ProbabilityValue(res)))

\* Execute(ctx, g) of every query type, on the graph at address a of heap h.
\* ctx is "live" or "cancelled".  Hands back [heap, out]; out = [status, kind, res].
RECURSIVE Execute(_, _, _, _, _)
RECURSIVE ExecuteAll(_, _, _, _, _, _)
executeConcurrent(h, ctx, queries, a, ord) ==
    IF Len(queries) = 0 THEN [heap |-> h, out |-> ErrRes("InvalidStructure")]
    ELSE LET all == ExecuteAll(h, ctx, queries, a, ord, <<>>)
         IN [heap |-> all.heap, out |-> Gather(all.outs)]

ExecuteAll(h, ctx, queries, a, ord, outs) ==
    IF queries = <<>> THEN [heap |-> h, outs |-> outs]
    ELSE LET r == Execute(h, ctx, Head(queries), a, ord)
         IN ExecuteAll(r.heap, ctx, Tail(queries), a, ord, Append(outs, r.out))

Execute(h, ctx, q, a, ord) ==
    CASE q.type = "MaxPath" ->
           IF Done(ctx) THEN [heap |-> h, out |-> ErrRes("Canceled")]
           ELSE LET r == MaxProbabilityPath(h[a], q.Start, q.End, ord)
                IN [heap |-> h,
                    out |-> IF r.status = "ok" THEN OkRes(PathResult(r.path))
                            ELSE [status |-> r.status, kind |-> r.kind, res |-> NoResult]]
      [] q.type = "TopK" ->
           IF Done(ctx) THEN [heap |-> h, out |-> ErrRes("Canceled")]
           ELSE LET r == TopKMaxProbabilityPaths(h, a, q.Start, q.End, q.K, ord)
                IN [heap |-> r.heap,
                    out |-> IF r.status = "ok" THEN OkRes(PathsResult(r.paths))
                            ELSE [status |-> r.status, kind |-> r.kind, res |-> NoResult]]
      [] q.type = "Reach" ->
           IF Done(ctx) THEN [heap |-> h, out |-> ErrRes("Canceled")]
           ELSE IF q.Mode = "Exact"
           THEN LET r == ReachabilityProbability(h[a], q.Start, q.End, ord)
                IN [heap |-> h,
                    out |-> IF r.status = "ok" THEN OkRes(ProbabilityResult(r.val))
                            ELSE [status |-> r.status, kind |-> r.kind, res |-> NoResult]]
           ELSE IF q.Mode = "MonteCarlo"
           THEN LET r == ReachabilityProbabilityMonteCarlo(h[a], q.Start, q.End,
                                                           NumSamples, q.Seed, NumCPU, ord)
                IN [heap |-> h,
                    out |-> IF r.status = "ok" THEN OkRes(SampleResultOf(r.sample))
                            ELSE [status |-> r.status, kind |-> r.kind, res |-> NoResult]]
           ELSE [heap |-> h, out |-> ErrRes("InvalidMode")]
      [] q.type = "Cond" ->
           IF Done(ctx) THEN [heap |-> h, out |-> ErrRes("Canceled")]
           ELSE LET c == ApplyCondition(h, a, q.Condition)
                IN IF c.status # "ok"
                   THEN [heap |-> c.heap,
                         out |-> [status |-> c.status, kind |-> c.kind, res |-> NoResult]]
                   ELSE Execute(c.heap, ctx, q.Inner, c.ref, ord)
      [] q.type = "Multi" -> executeConcurrent(h, ctx, q.Queries, a, ord)
      [] q.type = "And" ->
           LET r == executeConcurrent(h, ctx, q.Queries, a, ord)
           IN IF r.out.status # "ok" THEN r
              ELSE [heap |-> r.heap, out |-> AndReduce(r.out.res.Results)]
      [] q.type = "Or" ->
           LET r == executeConcurrent(h, ctx, q.Queries, a, ord)
           IN IF r.out.status # "ok" THEN r
              ELSE [heap |-> r.heap, out |-> OrReduce(r.out.res.Results)]
      [] q.type = "Aggregate" ->
           LET r == executeConcurrent(h, ctx, q.Queries, a, ord)
           IN IF r.out.status # "ok" THEN r
              ELSE [heap |-> r.heap, out |-> Reduce(q.Reducer, r.out.res.Results)]
      [] q.type = "Threshold" ->
           LET r == Execute(h, ctx, q.Inner, a, ord)
           IN IF r.out.status # "ok" THEN r
              ELSE IF ~IsProbabilisticResult(r.out.res)
              THEN [heap |-> r.heap, out |-> ErrRes("TypeMismatch")]
              ELSE IF RatLess(q.Threshold, Zero) \/ RatLess(One, q.Threshold)
              THEN [heap |-> r.heap, out |-> ErrRes("InvalidParameter")]
              ELSE [heap |-> r.heap,
                    out |-> OkRes(ThresholdValue(q.Threshold, r.out.res))]


(***************************************************************************)
(* The DSL: AST to query (convert.go) and the statements (statement.go).   *)
(* A query AST has the shape of the query, with the CONDITIONAL's items    *)
(* [item, id, State] in place of the Condition; State is the keyword as    *)
(* the user typed it.                                                      *)
(***************************************************************************)
ConditionItem(item, id, state) == [item |-> item, id |-> id, State |-> state]
ConditionalAST(items, inner) == [type |-> "Cond", Conditions |-> items, Query |-> inner]

\* convertCondition: hands back [status, kind, condition].
RECURSIVE convertConditionLoop(_, _, _)
convertConditionLoop(g, items, acc) ==
    IF items = <<>>
    THEN [status |-> "ok", kind |-> "",
          condition |-> Condition(acc.activeEdges, acc.inactiveEdges,
                                  acc.inactiveNodes, acc.inactiveNodes)]
    ELSE
      LET it == Head(items)
      IN IF it.item = "EDGE"
         THEN IF ~ContainsEdgeByID(g, it.id)
              THEN [status |-> "err", kind |-> EdgeDoesNotExist,
                    condition |-> Condition(<<>>, <<>>, <<>>, <<>>)]
              ELSE IF it.State = "ACTIVE"
              THEN convertConditionLoop(g, Tail(items),
                        [acc EXCEPT !.activeEdges = Append(@, g.edgeMap[it.id])])
              ELSE convertConditionLoop(g, Tail(items),
                        [acc EXCEPT !.inactiveEdges = Append(@, g.edgeMap[it.id])])
         ELSE IF it.State = "ACTIVE"
              THEN convertConditionLoop(g, Tail(items),
                        [acc EXCEPT !.activeNodes = Append(@, it.id)])
              ELSE convertConditionLoop(g, Tail(items),
                        [acc EXCEPT !.inactiveNodes = Append(@, it.id)])

convertCondition(g, items) ==
    convertConditionLoop(g, items,
        [activeEdges |-> <<>>, inactiveEdges |-> <<>>,
         activeNodes |-> <<>>, inactiveNodes |-> <<>>])

\* strings.EqualFold(r.Mode, "MONTECARLO")
EqualFoldMonteCarlo(mode) == mode \in {"MONTECARLO", "montecarlo", "MonteCarlo"}

\* convertQuery: hands back [status, kind, q].
RECURSIVE convertQuery(_, _)
RECURSIVE convertComposite(_, _, _)
convertComposite(g, asts, acc) ==
    IF asts = <<>> THEN [status |-> "ok", kind |-> "", qs |-> acc]
    ELSE LET c == convertQuery(g, Head(asts))
         IN IF c.status # "ok" THEN [status |-> c.status, kind |-> c.kind, qs |-> <<>>]
            ELSE convertComposite(g, Tail(asts), Append(acc, c.q))

convertQuery(g, ast) ==
    CASE ast.type = "Cond" ->
           LET c == convertCondition(g, ast.Conditions)
           IN IF c.status # "ok" THEN [status |-> c.status, kind |-> c.kind, q |-> ast]
              ELSE LET i == convertQuery(g, ast.Query)
                   IN IF i.status # "ok" THEN i
                      ELSE [status |-> "ok", kind |-> "",
                            q |-> ConditionalQuery(c.condition, i.q)]
      [] ast.type = "Threshold" ->
           LET i == convertQuery(g, ast.Inner)
           IN IF i.status # "ok" THEN i
              ELSE [status |-> "ok", kind |-> "", q |-> ThresholdQuery(i.q, ast.Threshold)]
      [] ast.type = "Reach" ->
           [status |-> "ok", kind |-> "",
            q |-> ReachabilityProbabilityQuery(ast.Start, ast.End,
                    IF EqualFoldMonteCarlo(ast.Mode) THEN "MonteCarlo" ELSE "Exact", 0)]
      [] ast.type \in {"Multi", "And", "Or", "Aggregate"} ->
           LET c == convertComposite(g, ast.Queries, <<>>)
           IN IF c.status # "ok" THEN [status |-> c.status, kind |-> c.kind, q |-> ast]
              ELSE [status |-> "ok", kind |-> "", q |-> [ast EXCEPT !.Queries = c.qs]]
      [] OTHER -> [status |-> "ok", kind |-> "", q |-> ast]

\* CreateNodeStatement.Execute / DeleteNodeStatement.Execute: one store call
\* per id, stopping at the first that fails.
RECURSIVE CreateNodeStatement(_, _, _)
CreateNodeStatement(g, ids, props) ==
    IF ids = <<>> THEN Ok(g)
    ELSE LET r == AddNode(g, Head(ids), props)
         IN IF r.status # "ok" THEN r ELSE CreateNodeStatement(r.g, Tail(ids), props)

RECURSIVE DeleteNodeStatement(_, _, _)
DeleteNodeStatement(g, ids, ord) ==
    IF ids = <<>> THEN Ok(g)
    ELSE LET r == RemoveNode(g, Head(ids), ord)
         IN IF r.status # "ok" THEN r ELSE DeleteNodeStatement(r.g, Tail(ids), ord)

(***************************************************************************)
(* Serialization (package serialization).  A serializedValue is what the   *)
(* JSON text holds: the kind's name and a JSON number, string or boolean;  *)
(* encoding/json decodes every number into a float64, here a rational.     *)
(* An empty props map is left out of the text (omitempty) and read back as *)
(* no entry, which the maps of this model do not tell apart.               *)
(***************************************************************************)
marshalValue(v) ==
    CASE v.Kind = "IntVal" -> [Kind |-> "int", Value |-> [json |-> "number", n |-> <<v.I, 1>>]]
      [] v.Kind = "FloatVal" -> [Kind |-> "float", Value |-> [json |-> "number", n |-> v.F]]
      [] v.Kind = "StringVal" -> [Kind |-> "string", Value |-> [json |-> "string", s |-> v.S]]
      [] v.Kind = "BoolVal" -> [Kind |-> "bool", Value |-> [json |-> "bool", b |-> v.B]]
      [] OTHER -> [Kind |-> "unknown", Value |-> [json |-> "null"]]

\* Hands back [status, v]; int64(f) cuts the fraction off.
unmarshalValue(sv) ==
    LET bad == [status |-> "err", v |-> Value("IntVal", 0, Zero, "", FALSE)]
    IN CASE sv.Kind = "int" ->
              IF sv.Value.json # "number" THEN bad
              ELSE [status |-> "ok",
                    v |-> Value("IntVal", sv.Value.n[1] \div sv.Value.n[2], Zero, "", FALSE)]
         [] sv.Kind = "float" ->
              IF sv.Value.json # "number" THEN bad
              ELSE [status |-> "ok", v |-> Value("FloatVal", 0, sv.Value.n, "", FALSE)]
         [] sv.Kind = "string" ->
              IF sv.Value.json # "string" THEN bad
              ELSE [status |-> "ok", v |-> Value("StringVal", 0, Zero, sv.Value.s, FALSE)]
         [] sv.Kind = "bool" ->
              IF sv.Value.json # "bool" THEN bad
              ELSE [status |-> "ok", v |-> Value("BoolVal", 0, Zero, "", sv.Value.b)]
         [] OTHER -> bad

\* GetNodes, in this run's enumeration order.
GetNodes(g, ord) ==
    LET ns == SelectSeq(ord, LAMBDA n : n \in DOMAIN g.nodeMap)
    IN [i \in 1..Len(ns) |-> g.nodeMap[ns[i]]]

\* Hands back [status, Nodes, Edges]; e.Props of a nil *Edge panics.
toSerializedGraph(g, ord) ==
    LET nodes == GetNodes(g, ord)
        edges == GetEdges(g, ord)
        sProps(props) == [k \in DOMAIN props |-> marshalValue(props[k])]
    IN IF \E i \in 1..Len(edges) : edges[i] = NilEdge
       THEN [status |-> "panic", Nodes |-> <<>>, Edges |-> <<>>]
       ELSE [status |-> "ok",
             Nodes |-> [i \in 1..Len(nodes) |->
                          [ID |-> nodes[i].ID, Props |-> sProps(nodes[i].Props)]],
             Edges |-> [i \in 1..Len(edges) |->
                          [ID |-> edges[i].ID, From |-> edges[i].From, To |-> edges[i].To,
                           Probability |-> edges[i].Probability,
                           Props |-> sProps(edges[i].Props)]]]

\* The props of a serialized node or edge: [status, props].
unmarshalProps(sProps) ==
    IF \E k \in DOMAIN sProps : unmarshalValue(sProps[k]).status # "ok"
    THEN [status |-> "err", props |-> EmptyProps]
    ELSE [status |-> "ok", props |-> [k \in DOMAIN sProps |-> unmarshalValue(sProps[k]).v]]

\* fromSerializedGraph: the two loops, on the graph r.g built so far.
RECURSIVE addSerializedNodes(_, _)
addSerializedNodes(r, sNodes) ==
    IF r.status # "ok" \/ sNodes = <<>> THEN r
    ELSE LET sn == Head(sNodes)
             up == unmarshalProps(sn.Props)
         IN IF up.status # "ok" THEN Err(r.g, "")
            ELSE addSerializedNodes(AddNode(r.g, sn.ID, up.props), Tail(sNodes))

RECURSIVE addSerializedEdges(_, _)
addSerializedEdges(r, sEdges) ==
    IF r.status # "ok" \/ sEdges = <<>> THEN r
    ELSE LET se == Head(sEdges)
             up == unmarshalProps(se.Props)
         IN IF up.status # "ok" THEN Err(r.g, "")
            ELSE addSerializedEdges(
                    AddEdge(r.g, se.ID, se.From, se.To, se.Probability, up.props),
                    Tail(sEdges))

fromSerializedGraph(sg) ==
    addSerializedEdges(addSerializedNodes(Ok(CreateProbAdjListGraph), sg.Nodes), sg.Edges)

\* WriteJSON into a buffer, then ReadJSON out of it.
roundTrip(g, ord) ==
    LET sg == toSerializedGraph(g, ord)
    IN IF sg.status # "ok" THEN Panic(g) ELSE fromSerializedGraph(sg)

(***************************************************************************)
(* The session: a base graph, a parser's session graph cloned from it,     *)
(* statements on either graph and queries on the session graph.            *)
(***************************************************************************)
VARIABLES
    heap,       \* address -> graph struct
    base,       \* address of the base graph
    session,    \* address of the parser's SessionGraph, NoRef before CreateParser
    ops,        \* statements run so far
    ret         \* what the last call returned: [op, status, kind]

\* One call of executeConcurrent: the caller, its tasks and the closer.
VARIABLES
    queries,    \* the sub-queries of the composite
    mainPc,     \* the caller: "spawn", "recv" or "returned"
    spawned,    \* tasks started by the caller's loop so far
    taskPc,     \* per task: "idle", "ready", "kernel", "running", "sent" or "done"
    taskOut,    \* per task: what q.Execute handed back
    resCh,      \* the buffered channel: resultWrappers in flight
    closed,     \* resCh has been closed
    wg,         \* the WaitGroup's counter
    ctxDone,    \* the derived context has been cancelled
    results,    \* the caller's results slice
    arrived,    \* history: the indices the caller received, in order of receipt
    reduced,    \* history: the calls of reduce(results) so far
    mainOut     \* what the caller returned

\* Two Monte-Carlo runs on one graph with one seed.
VARIABLES
    mcIn,       \* [start, end, seed] of both runs
    mcRuns      \* what the runs so far returned

\* One call of ReachabilityProbabilityMonteCarlo as its goroutines run it.
VARIABLES
    workers,    \* per worker: [pc, out], pc is "run", "send" or "exit"
    mcCh,       \* the buffered channel results: workerResults in flight
    collector   \* the caller: [pc, i, totalSuccesses, totalTrials]

\* One call of a kernel, a store function or a query on a fixed graph.
VARIABLES
    kcall,      \* the call: [op, q]
    kout        \* what it handed back

sessionVars == <<heap, base, session, ops, ret>>
concVars == <<queries, mainPc, spawned, taskPc, taskOut, resCh, closed, wg, ctxDone,
              results, arrived, reduced, mainOut>>
mcVars == <<mcIn, mcRuns, workers, mcCh, collector>>
kernVars == <<kcall, kout>>
vars == <<sessionVars, concVars, mcVars, kernVars>>

\* No composite is running, no Monte-Carlo run and no kernel call has been made.
ConcIdle ==
    /\ queries = <<>> /\ mainPc = "returned" /\ spawned = 0
    /\ taskPc = <<>> /\ taskOut = <<>> /\ resCh = <<>> /\ closed = TRUE
    /\ wg = 0 /\ ctxDone = TRUE /\ results = <<>> /\ arrived = <<>> /\ reduced = 0
    /\ mainOut = ErrRes("InvalidStructure")
WorkersIdle == workers = <<>> /\ mcCh = <<>> /\ collector = [pc |-> "returned"]
McIdle == mcIn = <<>> /\ mcRuns = <<>> /\ WorkersIdle
KernIdle == kcall = [op |-> "none"] /\ kout = [status |-> "none"]

\* The node-key orders one run may enumerate its maps in.
Orders == {<<"a", "b", "c">>, <<"c", "b", "a">>}

\* The id lists of CREATE NODE / DELETE NODE statements.
IdLists == {<<n>> : n \in Nodes} \cup {<<"a", "b">>}

\* The endpoints of CREATE EDGE / DELETE EDGE statements.
EdgePairs == {<<"a", "b">>, <<"b", "c">>, <<"a", "c">>, <<"b", "a">>}

Ret(op, status, kind) == [op |-> op, status |-> status, kind |-> kind]

Targets == {"base"} \cup (IF session # NoRef THEN {"session"} ELSE {})
Ref(t) == IF t = "base" THEN base ELSE session

\* Unreachable structs are collected.
Live(h, roots) == [x \in DOMAIN h \cap roots |-> h[x]]

Init ==
    /\ heap = [x \in {1} |-> CreateProbAdjListGraph]
    /\ base = 1
    /\ session = NoRef
    /\ ops = 0
    /\ ret = Ret("new", "ok", "")
    /\ ConcIdle
    /\ McIdle
    /\ KernIdle

\* A statement on graph t whose outcome is r = [g, status, kind].
Mutate(t, r) ==
    /\ ops < MaxOps
    /\ heap' = [heap EXCEPT ![Ref(t)] = r.g]
    /\ ops' = ops + 1
    /\ ret' = Ret("Statement", r.status, r.kind)
    /\ UNCHANGED <<base, session, concVars, mcVars, kernVars>>

CreateNode ==
    \E t \in Targets, ids \in IdLists :
        Mutate(t, CreateNodeStatement(heap[Ref(t)], ids, SomeProps))

DeleteNode ==
    \E t \in Targets, ids \in IdLists, ord \in Orders :
        Mutate(t, DeleteNodeStatement(heap[Ref(t)], ids, ord))

CreateEdge ==
    \E t \in Targets, id \in EdgeIDs, p \in EdgePairs, prob \in ProbInputs :
        Mutate(t, AddEdge(heap[Ref(t)], id, p[1], p[2], prob, EmptyProps))

DeleteEdge ==
    \E t \in Targets, p \in EdgePairs :
        Mutate(t, RemoveEdge(heap[Ref(t)], p[1], p[2]))

DeleteEdgeByID ==
    \E t \in Targets, id \in EdgeIDs :
        Mutate(t, RemoveEdgeByID(heap[Ref(t)], id))

\* CreateParser(baseGraph): SessionGraph is baseGraph.Clone().
CreateParser ==
    /\ ops < MaxOps
    /\ session = NoRef
    /\ LET cl == Clone(heap, base)
       IN /\ session' = cl.ref
          /\ heap' = Live(cl.heap, {base, cl.ref})
          /\ ret' = Ret("CreateParser", cl.status, "")
    /\ ops' = ops + 1
    /\ UNCHANGED <<base, concVars, mcVars, kernVars>>

\* The query ASTs a line may parse to.
LeafASTs(s, t) ==
    {MaxProbabilityPathQuery(s, t),
     TopKProbabilityPathsQuery(s, t, 2),
     ReachabilityProbabilityQuery(s, t, "EXACT", 0),
     ReachabilityProbabilityQuery(s, t, "MONTECARLO", 0)}
ConditionItems ==
    {ConditionItem("EDGE", e, "INACTIVE") : e \in EdgeIDs}
      \cup {ConditionItem("NODE", "c", "INACTIVE"),
            ConditionItem("NODE", "b", "ACTIVE"), ConditionItem("EDGE", "e1", "ACTIVE")}
QueryASTs ==
    UNION {LeafASTs(p[1], p[2]) : p \in EdgePairs}
      \cup {TopKProbabilityPathsQuery("a", "b", 0)}
      \cup {ConditionalAST(<<it>>, q) : it \in ConditionItems, q \in LeafASTs("a", "b")}
      \cup {MultiQuery(<<MaxProbabilityPathQuery("a", "b"),
                         ReachabilityProbabilityQuery("a", "c", "EXACT", 0)>>),
            AndQuery(<<ReachabilityProbabilityQuery("a", "b", "EXACT", 0),
                       TopKProbabilityPathsQuery("b", "c", 2)>>),
            OrQuery(<<ReachabilityProbabilityQuery("a", "b", "EXACT", 0),
                      MaxProbabilityPathQuery("b", "c")>>),
            ThresholdQuery(ReachabilityProbabilityQuery("a", "b", "EXACT", 0), Half),
            AggregateQuery(<<ReachabilityProbabilityQuery("a", "b", "EXACT", 0),
                             ReachabilityProbabilityQuery("a", "c", "EXACT", 0)>>,
                           [name |-> "Mean"])}

QueryOps == {"MaxPath", "TopK", "Reach", "Cond", "Multi", "And", "Or", "Threshold", "Aggregate"}

\* Parser.ParseLine on a query: convert against the session graph, then
\* InferenceEngine.Execute with a background context.  A run of queries is
\* explored one query at a time: each is tried from the state the statements
\* before it left.
ParseLineQuery ==
    /\ session # NoRef
    /\ ret.op \notin QueryOps
    /\ \E ast \in QueryASTs, ord \in Orders :
        LET c == convertQuery(heap[session], ast)
        IN IF c.status # "ok"
           THEN /\ ret' = Ret(ast.type, c.status, c.kind)
                /\ heap' = heap
           ELSE LET r == Execute(heap, "live", c.q, session, ord)
                IN /\ ret' = Ret(ast.type, r.out.status, r.out.kind)
                   /\ heap' = Live(r.heap, {base, session})
    /\ UNCHANGED <<base, session, ops, concVars, mcVars, kernVars>>

Next ==
    \/ CreateNode
    \/ DeleteNode
    \/ CreateEdge
    \/ DeleteEdge
    \/ DeleteEdgeByID
    \/ CreateParser
    \/ ParseLineQuery

Spec == Init /\ [][Next]_vars

(***************************************************************************)
(* Properties of the graph store and the session.                          *)
(***************************************************************************)
Graphs == {heap[x] : x \in DOMAIN heap}

InPairs(g) == {<<to, from>> \in Nodes \X Nodes :
                    to \in DOMAIN g.in /\ from \in DOMAIN g.in[to]}

\* I2 on one graph.
EdgeMapsAgree(g) ==
    /\ \A id \in DOMAIN g.edgeMap :
         LET e == g.edgeMap[id]
         IN /\ <<e.From, e.To>> \in OutPairs(g) /\ g.out[e.From][e.To] = e
            /\ <<e.To, e.From>> \in InPairs(g) /\ g.in[e.To][e.From] = e
    /\ \A ft \in OutPairs(g) :
         LET e == g.out[ft[1]][ft[2]]
         IN e.ID \in DOMAIN g.edgeMap /\ g.edgeMap[e.ID] = e
    /\ \A tf \in InPairs(g) :
         LET e == g.in[tf[1]][tf[2]]
         IN e.ID \in DOMAIN g.edgeMap /\ g.edgeMap[e.ID] = e

\* C1: in every graph the statements reach, the edge map and the two
\* adjacency maps hold the same edges: each edge of the edge map is the entry
\* out[from][to] and in[to][from], and each edge stored in out or in is the
\* edge-map entry for its id.
C1_EdgeMapsAgree == \A g \in Graphs : EdgeMapsAgree(g)

\* I1 on one graph.
NoDanglingAdjacency(g) ==
    /\ \A ft \in OutPairs(g) : ft[2] \in DOMAIN g.nodeMap
    /\ \A tf \in InPairs(g) : tf[2] \in DOMAIN g.nodeMap

\* C2: after any sequence of store operations every node id that is a key
\* of an inner map of out or in is a key of the node map, so no edge of a
\* removed node is left in the adjacency of a remaining node.
C2_NoDanglingAdjacency == \A g \in Graphs : NoDanglingAdjacency(g)

\* C3: after any sequence of DSL statements on the session graph, a
\* statement or a query returns a result or an error value; none panics.
C3_NoPanic ==
    ret.op \in QueryOps \cup {"Statement"} => ret.status # "panic"

\* C4: after any sequence of store operations no two distinct edge ids of
\* the edge map have the same from and to.
C4_OneEdgePerPair ==
    \A g \in Graphs : \A i, j \in DOMAIN g.edgeMap :
        (g.edgeMap[i].From = g.edgeMap[j].From /\ g.edgeMap[i].To = g.edgeMap[j].To)
            => i = j

\* C5: executing a query, whether it succeeds or fails, leaves the graph it
\* was given (and the base graph) unchanged: same nodes, edges,
\* probabilities and properties before and after.
C5_QueryLeavesGraph ==
    [][ret'.op \in QueryOps => /\ heap'[session] = heap[session]
                               /\ heap'[base] = heap[base]]_vars

\* A conditional query has run on a session graph that has an edge, and
\* handed back a result.
C5_Witness ==
    /\ ret.op = "Cond" /\ ret.status = "ok"
    /\ session # NoRef /\ DOMAIN heap[session].edgeMap # {}

\* C6: a clone is independent of its original: a statement on the session
\* clone leaves the base graph as it was, and a statement on the base graph
\* leaves the session clone as it was.
C6_CloneIndependent ==
    [][(session # NoRef /\ ret'.op = "Statement")
            => (heap'[base] = heap[base] \/ heap'[session] = heap[session])]_vars

\* The session is a clone of a base graph that had nodes, and a statement has
\* since made the two differ.
C6_Witness ==
    /\ session # NoRef /\ ret.op = "Statement" /\ ret.status = "ok"
    /\ DOMAIN heap[base].nodeMap # {}
    /\ DOMAIN heap[session].edgeMap # {}
    /\ heap[session] # heap[base]

\* The queries q of the CONDITIONAL equivalence.
InnerASTs ==
    UNION {LeafASTs(p[1], p[2]) : p \in {<<"a", "b">>, <<"a", "c">>}}

\* CONDITIONAL(given EDGE e INACTIVE, q) on the graph at address x.
ConditionalOn(x, e, q, ord) ==
    LET c == convertQuery(heap[x],
                          ConditionalAST(<<ConditionItem("EDGE", e, "INACTIVE")>>, q))
    IN IF c.status # "ok" THEN [status |-> c.status, kind |-> c.kind, res |-> NoResult]
       ELSE Execute(heap, "live", c.q, x, ord).out

\* q on the graph at address x with edge e removed.
RemovedOn(x, e, q, ord) ==
    LET r == RemoveEdgeByID(heap[x], e)
        c == convertQuery(r.g, q)
    IN IF r.status # "ok" THEN [status |-> r.status, kind |-> r.kind, res |-> NoResult]
       ELSE IF c.status # "ok" THEN [status |-> c.status, kind |-> c.kind, res |-> NoResult]
       ELSE Execute([heap EXCEPT ![x] = r.g], "live", c.q, x, ord).out

\* C10: for every graph G, existing edge e and query q, CONDITIONAL(given
\* EDGE e INACTIVE, q) on G returns what q returns on G with e removed.
C10_InactiveEdgeIsRemoval ==
    \A x \in DOMAIN heap : \A e \in DOMAIN heap[x].edgeMap :
        \A q \in InnerASTs, ord \in Orders :
            ConditionalOn(x, e, q, ord) = RemovedOn(x, e, q, ord)

\* The same on the graphs whose adjacency has no dangling entry and agrees
\* with the edge map.
C10_OnConsistentGraphs ==
    \A x \in DOMAIN heap :
        (EdgeMapsAgree(heap[x]) /\ NoDanglingAdjacency(heap[x])) =>
            \A e \in DOMAIN heap[x].edgeMap : \A q \in InnerASTs, ord \in Orders :
                ConditionalOn(x, e, q, ord) = RemovedOn(x, e, q, ord)

\* The four maps of two graph structs are equal.
SameGraph(g1, g2) ==
    /\ g1.nodeMap = g2.nodeMap
    /\ g1.edgeMap = g2.edgeMap
    /\ g1.out = g2.out
    /\ g1.in = g2.in

\* The same node ids with the same properties, and the same edges (id, from,
\* to, probability, properties).
SameContent(g1, g2) == g1.nodeMap = g2.nodeMap /\ g1.edgeMap = g2.edgeMap

\* C16: for every graph the store operations lead to, reading back what
\* write produced succeeds and yields a graph with the same nodes, edges and
\* properties.
C16_RoundTrip ==
    \A g \in Graphs : \A ord \in Orders :
        LET r == roundTrip(g, ord)
        IN r.status = "ok" /\ SameContent(r.g, g)

\* The same on the graphs whose adjacency has no dangling entry and agrees
\* with the edge map; there the four maps come back equal.
C16_OnConsistentGraphs ==
    \A g \in Graphs : \A ord \in Orders :
        (EdgeMapsAgree(g) /\ NoDanglingAdjacency(g)) =>
            LET r == roundTrip(g, ord)
            IN r.status = "ok" /\ SameGraph(r.g, g)

\* C17: after an AddEdge(id, from, to, p) that succeeds, RemoveEdge(from, to)
\* leaves the graph as it was before the AddEdge: the same node map, edge
\* map, out and in adjacency.
C17_AddThenRemoveEdge ==
    \A g \in Graphs : \A id \in EdgeIDs, p \in EdgePairs, prob \in ProbInputs :
        LET added == AddEdge(g, id, p[1], p[2], prob, EmptyProps)
        IN added.status = "ok" =>
            LET removed == RemoveEdge(added.g, p[1], p[2])
            IN removed.status = "ok" /\ SameGraph(removed.g, g)

\* The same on the consistent graphs where from and to are joined by no edge yet.
C17_OnFreePairs ==
    \A g \in Graphs : \A id \in EdgeIDs, p \in EdgePairs, prob \in ProbInputs :
        LET added == AddEdge(g, id, p[1], p[2], prob, EmptyProps)
        IN (/\ added.status = "ok" /\ ~ContainsEdge(g, p[1], p[2])
            /\ EdgeMapsAgree(g) /\ NoDanglingAdjacency(g)) =>
            LET removed == RemoveEdge(added.g, p[1], p[2])
            IN removed.status = "ok" /\ SameGraph(removed.g, g)

(***************************************************************************)
(* executeConcurrent as its goroutines run it: the caller spawns one task  *)
(* per sub-query and the closer, then ranges over resCh.  A task runs      *)
(* q.Execute(ctx, g), sends its resultWrapper and then, deferred, calls    *)
(* wg.Done.  The graph is fixed; the sub-queries are leaf queries on it.   *)
(***************************************************************************)
NumQueries == 3

ConcGraph ==
    LET g0 == CreateNodeStatement(CreateProbAdjListGraph, <<"a", "b", "c">>, SomeProps).g
        g1 == AddEdge(g0, "e1", "a", "b", Half, EmptyProps).g
    IN AddEdge(g1, "e2", "b", "c", Half, EmptyProps).g

\* Two sub-queries that succeed with different results and two that fail
\* with different errors ("z" is no node; K = 0 is rejected).
ConcQueries ==
    {ReachabilityProbabilityQuery("a", "c", "Exact", 0),
     MaxProbabilityPathQuery("a", "b"),
     MaxProbabilityPathQuery("a", "z"),
     TopKProbabilityPathsQuery("a", "c", 0)}

ConcOrder == <<"a", "b", "c">>

Tasks == 1..Len(queries)

InitConc ==
    /\ heap = [x \in {1} |-> ConcGraph]
    /\ base = 1
    /\ session = NoRef
    /\ ops = 0
    /\ ret = Ret("new", "ok", "")
    /\ McIdle
    /\ KernIdle
    /\ queries \in [1..NumQueries -> ConcQueries]
    /\ mainPc = "spawn"
    /\ spawned = 0
    /\ taskPc = [i \in 1..NumQueries |-> "idle"]
    /\ taskOut = [i \in 1..NumQueries |-> ErrRes("")]
    /\ resCh = <<>>
    /\ closed = FALSE
    /\ wg = NumQueries                                  \* wg.Add(len(queries))
    /\ ctxDone = FALSE
    /\ results = [i \in 1..NumQueries |-> NoResult]     \* make([]result.Result, n)
    /\ arrived = <<>>
    /\ reduced = 0
    /\ mainOut = ErrRes("")

\* go func(i, q) {...}(i, q): one pass of the caller's spawn loop.
MainSpawn ==
    /\ mainPc = "spawn" /\ spawned < Len(queries)
    /\ spawned' = spawned + 1
    /\ taskPc' = [taskPc EXCEPT ![spawned + 1] = "ready"]
    /\ UNCHANGED <<sessionVars, mcVars, kernVars, queries, mainPc, taskOut, resCh, closed, wg,
                   ctxDone, results, mainOut, arrived, reduced>>

\* The loop is over and the closer is started: the caller goes on to range resCh.
MainSpawnCloser ==
    /\ mainPc = "spawn" /\ spawned = Len(queries)
    /\ mainPc' = "recv"
    /\ UNCHANGED <<sessionVars, mcVars, kernVars, queries, spawned, taskPc, taskOut, resCh, closed,
                   wg, ctxDone, results, mainOut, arrived, reduced>>

\* r, err := q.Execute(ctx, g), up to the select on ctx.Done() that opens
\* Execute: a context seen as done ends the call there, and otherwise the
\* task goes on to the kernel.
TaskExecute(i) ==
    /\ taskPc[i] = "ready"
    /\ IF ctxDone
       THEN /\ taskPc' = [taskPc EXCEPT ![i] = "running"]
            /\ taskOut' = [taskOut EXCEPT ![i] =
                    Execute(heap, "cancelled", queries[i], base, ConcOrder).out]
       ELSE /\ taskPc' = [taskPc EXCEPT ![i] = "kernel"]
            /\ UNCHANGED taskOut
    /\ UNCHANGED <<sessionVars, mcVars, kernVars, queries, mainPc, spawned, resCh, closed, wg,
                   ctxDone, results, mainOut, arrived, reduced>>

\* The rest of q.Execute: the inference kernel runs to its end.  No kernel
\* takes the context, so what it hands back is what it hands back uncancelled.
TaskKernel(i) ==
    /\ taskPc[i] = "kernel"
    /\ taskPc' = [taskPc EXCEPT ![i] = "running"]
    /\ taskOut' = [taskOut EXCEPT ![i] =
            Execute(heap, "live", queries[i], base, ConcOrder).out]
    /\ UNCHANGED <<sessionVars, mcVars, kernVars, queries, mainPc, spawned, resCh, closed, wg,
                   ctxDone, results, mainOut, arrived, reduced>>

resultWrapper(i, out) == [index |-> i, res |-> out.res, err |-> out]

\* A channel with room for one value.
CapacityOfOne == IF queries = <<>> THEN 0 ELSE 1

\* resCh := make(chan resultWrapper, len(queries))
Capacity == Len(queries)

\* resCh <- resultWrapper{index: i, res: r, err: err}: the send waits while
\* the buffer is full.
TaskSend(i) ==
    /\ taskPc[i] = "running"
    /\ Len(resCh) < Capacity
    /\ resCh' = Append(resCh, resultWrapper(i, taskOut[i]))
    /\ taskPc' = [taskPc EXCEPT ![i] = "sent"]
    /\ UNCHANGED <<sessionVars, mcVars, kernVars, queries, mainPc, spawned, taskOut, closed, wg,
                   ctxDone, results, mainOut, arrived, reduced>>

\* defer wg.Done()
TaskDone(i) ==
    /\ taskPc[i] = "sent"
    /\ wg' = wg - 1
    /\ taskPc' = [taskPc EXCEPT ![i] = "done"]
    /\ UNCHANGED <<sessionVars, mcVars, kernVars, queries, mainPc, spawned, taskOut, resCh, closed,
                   ctxDone, results, mainOut, arrived, reduced>>

\* go func() { wg.Wait(); close(resCh) }()
CloserClose ==
    /\ mainPc # "spawn" /\ wg = 0 /\ ~closed
    /\ closed' = TRUE
    /\ UNCHANGED <<sessionVars, mcVars, kernVars, queries, mainPc, spawned, taskPc, taskOut, resCh,
                   wg, ctxDone, results, mainOut, arrived, reduced>>

\* A results slice filled in arrival order: the next free place.
StoreAppended(rs, rw) ==
    LET j == CHOOSE k \in 1..Len(rs) :
                rs[k] = NoResult /\ \A l \in 1..(k - 1) : rs[l] # NoResult
    IN [rs EXCEPT ![j] = rw.res]

\* results[rw.index] = rw.res
StoreResult(rs, rw) == [rs EXCEPT ![rw.index] = rw.res]

\* One pass of "for rw := range resCh" that receives a value.
MainReceive ==
    /\ mainPc = "recv" /\ resCh # <<>>
    /\ resCh' = Tail(resCh)
    /\ arrived' = Append(arrived, Head(resCh).index)
    /\ LET rw == Head(resCh)
       IN IF rw.err.status # "ok"
          THEN /\ ctxDone' = TRUE                             \* cancel()
               /\ mainOut' = [rw.err EXCEPT !.res = NoResult] \* return nil, rw.err
               /\ mainPc' = "returned"
               /\ UNCHANGED results
          ELSE /\ results' = StoreResult(results, rw)
               /\ UNCHANGED <<ctxDone, mainOut, mainPc>>
    /\ UNCHANGED <<sessionVars, mcVars, kernVars, queries, spawned, taskPc, taskOut, closed, wg,
                   reduced>>

\* A range that ends as soon as the channel holds nothing.
RangeEndedOnEmpty == resCh = <<>>

\* "for rw := range resCh" ends on the closed, drained channel.
RangeEnded == resCh = <<>> /\ closed

\* The range has ended: return reduce(results), then the deferred cancel().
MainReduce ==
    /\ mainPc = "recv" /\ RangeEnded
    /\ mainOut' = OkRes(MultiResult(results))
    /\ reduced' = reduced + 1
    /\ ctxDone' = TRUE
    /\ mainPc' = "returned"
    /\ UNCHANGED <<sessionVars, mcVars, kernVars, queries, spawned, taskPc, taskOut, resCh, closed,
                   wg, results, arrived>>

NextConc ==
    \/ MainSpawn
    \/ MainSpawnCloser
    \/ \E i \in Tasks : TaskExecute(i)
    \/ \E i \in Tasks : TaskKernel(i)
    \/ \E i \in Tasks : TaskSend(i)
    \/ \E i \in Tasks : TaskDone(i)
    \/ CloserClose
    \/ MainReceive
    \/ MainReduce

SpecConc == InitConc /\ [][NextConc]_vars

\* What sub-query i hands back when it runs to its end uncancelled.
SubResult(i) == Execute(heap, "live", queries[i], base, ConcOrder).out

\* C7: when all sub-queries of a composite succeed, the i-th element of the
\* gathered result list is the result of the i-th sub-query of the input
\* list, whatever the interleaving and completion order of the tasks.
C7_ResultsInInputOrder ==
    (mainPc = "returned" /\ mainOut.status = "ok") =>
        /\ Len(mainOut.res.Results) = Len(queries)
        /\ \A i \in Tasks : /\ SubResult(i).status = "ok"
                            /\ mainOut.res.Results[i] = SubResult(i).res

\* A composite of sub-queries with different results has returned them, the
\* last sub-query of the list having arrived first and the first one last.
C7_Witness ==
    /\ mainPc = "returned" /\ mainOut.status = "ok"
    /\ SubResult(1).res # SubResult(NumQueries).res
    /\ arrived[1] = NumQueries /\ arrived[NumQueries] = 1

\* C8: when a sub-query fails, the composite returns the error only after
\* all its sibling tasks have terminated: once the caller has returned, no
\* task it spawned is still to run or still running its sub-query.
C8_ReturnsAfterSiblings ==
    (mainPc = "returned" /\ mainOut.status = "err") =>
        \A i \in Tasks : taskPc[i] \in {"sent", "done"}

(***************************************************************************)
(* Two Monte-Carlo runs with the same graph, start, end, seed, numSamples  *)
(* and worker count.  Each run enumerates the store's maps in an order of  *)
(* its own: Go leaves the order of a range over a map unspecified.         *)
(***************************************************************************)
MaxSeed == 7

\* Every order a range over the node-keyed maps may take.
AllOrders ==
    {<<"a", "b", "c">>, <<"a", "c", "b">>, <<"b", "a", "c">>,
     <<"b", "c", "a">>, <<"c", "a", "b">>, <<"c", "b", "a">>}

\* The graphs of the runs: a chain, a fork and a diamond side.
McGraphs ==
    LET g0 == CreateNodeStatement(CreateProbAdjListGraph, <<"a", "b", "c">>, SomeProps).g
        ab == AddEdge(g0, "e1", "a", "b", Half, EmptyProps).g
    IN {ab,
        AddEdge(ab, "e2", "b", "c", Half, EmptyProps).g,
        AddEdge(ab, "e2", "a", "c", Half, EmptyProps).g}

InitMC ==
    /\ heap \in [{1} -> McGraphs]
    /\ base = 1
    /\ session = NoRef
    /\ ops = 0
    /\ ret = Ret("new", "ok", "")
    /\ ConcIdle
    /\ KernIdle
    /\ mcIn \in [start : {"a"}, end : {"b", "c"}, seed : 0..MaxSeed]
    /\ mcRuns = <<>>
    /\ WorkersIdle

\* One call of ReachabilityProbabilityMonteCarlo(g, start, end, numSamples, seed).
RunMonteCarlo ==
    /\ Len(mcRuns) < 2
    /\ \E ord \in AllOrders :
         mcRuns' = Append(mcRuns,
                          ReachabilityProbabilityMonteCarlo(heap[base], mcIn.start, mcIn.end,
                                                            NumSamples, mcIn.seed, NumCPU, ord))
    /\ UNCHANGED <<sessionVars, concVars, kernVars, mcIn, workers, mcCh, collector>>

NextMC == RunMonteCarlo

SpecMC == InitMC /\ [][NextMC]_vars

\* C9: two Monte-Carlo runs on the same graph with the same start, end, seed,
\* numSamples and worker count return the same estimate, whatever order the
\* store enumerates its nodes and edges in.
C9_MonteCarloDeterministic ==
    Len(mcRuns) = 2 => mcRuns[1].sample.Estimate = mcRuns[2].sample.Estimate


(***************************************************************************)
(* One call on a fixed graph: a kernel, ApplyCondition or a query's        *)
(* Execute.  The graph is built by AddNode and AddEdge on the nodes a, b   *)
(* and c: every ordered pair of different nodes has no edge or one edge,   *)
(* of probability 1/2 or 1 (a to c also 0).                                *)
(***************************************************************************)
MaxK == 4

KernPairs == <<<<"a", "b">>, <<"a", "c">>, <<"b", "a">>,
               <<"b", "c">>, <<"c", "a">>, <<"c", "b">>>>
KernEdgeIDs == <<"ab", "ac", "ba", "bc", "ca", "cb">>

\* No edge on a pair.
Absent == <<0, 0>>
KernWeights ==
    {w \in [1..Len(KernPairs) -> {Absent, Zero, Half, One}] :
        \A i \in 1..Len(KernPairs) : w[i] = Zero => i = 2}

RECURSIVE KernBuild(_, _, _)
KernBuild(g, w, i) ==
    IF i > Len(KernPairs) THEN g
    ELSE IF w[i] = Absent THEN KernBuild(g, w, i + 1)
    ELSE KernBuild(AddEdge(g, KernEdgeIDs[i], KernPairs[i][1], KernPairs[i][2],
                           w[i], EmptyProps).g,
                   w, i + 1)

KernGraph(w) ==
    KernBuild(CreateNodeStatement(CreateProbAdjListGraph, <<"a", "b", "c">>, SomeProps).g,
              w, 1)

KCall(op, start, end, k) == [op |-> op, start |-> start, end |-> end, k |-> k]

InitKernel ==
    /\ heap \in {[x \in {1} |-> KernGraph(w)] : w \in KernWeights}
    /\ base = 1
    /\ session = NoRef
    /\ ops = 0
    /\ ret = Ret("new", "ok", "")
    /\ ConcIdle
    /\ McIdle
    /\ KernIdle

\* inference.MaxProbabilityPath(g, start, end)
KMaxPath ==
    /\ kcall.op = "none"
    /\ \E s \in Nodes, t \in Nodes, ord \in Orders :
        /\ kcall' = KCall("MaxPath", s, t, 0)
        /\ kout' = MaxProbabilityPath(heap[base], s, t, ord)
    /\ UNCHANGED <<sessionVars, concVars, mcVars>>

\* inference.TopKMaxProbabilityPaths(g, start, end, k); its clones are garbage
\* when it returns.
KTopK ==
    /\ kcall.op = "none"
    /\ \E t \in Nodes, k \in 0..MaxK, ord \in Orders :
        LET r == TopKMaxProbabilityPaths(heap, base, "a", t, k, ord)
        IN /\ kcall' = KCall("TopK", "a", t, k)
           /\ kout' = [status |-> r.status, kind |-> r.kind, paths |-> r.paths]
           /\ heap' = Live(r.heap, {base})
    /\ UNCHANGED <<base, session, ops, ret, concVars, mcVars>>

\* inference.ReachabilityProbability(g, start, end)
KReach ==
    /\ kcall.op = "none"
    /\ \E s \in Nodes, t \in Nodes, ord \in Orders :
        LET r == ReachabilityProbability(heap[base], s, t, ord)
        IN /\ kcall' = KCall("Reach", s, t, 0)
           /\ kout' = [status |-> r.status, kind |-> r.kind, val |-> r.val]
    /\ UNCHANGED <<sessionVars, concVars, mcVars>>

\* g.ApplyCondition(condition) with one edge of g forced active or inactive;
\* the graph it hands back stays on the heap.
KApplyCondition ==
    /\ kcall.op = "none"
    /\ \E e \in DOMAIN heap[base].edgeMap, state \in {"ACTIVE", "INACTIVE"} :
        LET edge == heap[base].edgeMap[e]
            condition == IF state = "ACTIVE"
                         THEN Condition(<<edge>>, <<>>, <<>>, <<>>)
                         ELSE Condition(<<>>, <<edge>>, <<>>, <<>>)
            r == ApplyCondition(heap, base, condition)
        IN /\ kcall' = [op |-> "ApplyCondition", condition |-> condition]
           /\ kout' = [status |-> r.status, kind |-> r.kind, ref |-> r.ref]
           /\ heap' = r.heap
    /\ UNCHANGED <<base, session, ops, ret, concVars, mcVars>>

\* The leaf queries, the conditionals and the composites over them that the
\* next three actions run through Execute.
KernLeaves ==
    {MaxProbabilityPathQuery("a", "c"),
     TopKProbabilityPathsQuery("a", "c", 2),
     ReachabilityProbabilityQuery("a", "c", "Exact", 0),
     ReachabilityProbabilityQuery("a", "c", "MonteCarlo", 0)}
KernConditionals ==
    {ConditionalQuery(Condition(<<>>, <<heap[base].edgeMap[e]>>, <<>>, <<>>), q) :
        e \in DOMAIN heap[base].edgeMap \cap {"ab"},
        q \in {MaxProbabilityPathQuery("a", "c")}}
KernThresholds == {Zero, Half, One, <<3, 2>>}
KernAggregates ==
    {AggregateQuery(<<q, ReachabilityProbabilityQuery("a", "b", "Exact", 0)>>,
                    [name |-> "Mean"]) : q \in KernLeaves}
KernQueries ==
    KernLeaves \cup KernConditionals \cup KernAggregates
      \cup {ThresholdQuery(q, Half) : q \in KernLeaves}
      \cup {MultiQuery(<<q, q>>) : q \in KernLeaves}
      \cup {AndQuery(<<q, q>>) : q \in KernLeaves}
      \cup {OrQuery(<<q, q>>) : q \in KernLeaves}

\* What one Execute handed back, and the graph structs it allocated.
KOut(r) ==
    [status |-> r.out.status, kind |-> r.out.kind, res |-> r.out.res,
     clones |-> Cardinality(DOMAIN r.heap) - Cardinality(DOMAIN heap)]

KRun(op, ctx, q, ord) ==
    /\ kcall.op = "none"
    /\ kcall' = [op |-> op, ctx |-> ctx, q |-> q, ord |-> ord]
    /\ kout' = KOut(Execute(heap, ctx, q, base, ord))
    /\ UNCHANGED <<sessionVars, concVars, mcVars>>

\* q.Execute(ctx, g) with a context that is cancelled already.
KExecuteCancelled ==
    \E q \in KernQueries : KRun("Cancelled", "cancelled", q, <<"a", "b", "c">>)

\* ThresholdQuery.Execute
KThreshold ==
    \E q \in KernLeaves, t \in KernThresholds, ord \in Orders :
        KRun("Threshold", "live", ThresholdQuery(q, t), ord)

\* AggregateQuery.Execute with the Mean reducer
KAggregate ==
    \E q \in KernAggregates : KRun("Aggregate", "live", q, <<"a", "b", "c">>)

\* A node id that no graph of these calls holds.
Missing == "d"

\* The store functions and kernels that take a node id.
NodeCalls ==
    {"RemoveNode", "AddEdge", "RemoveEdge", "GetEdge", "OutgoingEdges", "IncomingEdges",
     "MaxProbabilityPath", "TopKMaxProbabilityPaths", "ReachabilityProbability"}

\* f(g, start, end) as [g, status, kind]; the functions of one node id take start.
NodeCall(f, g, start, end, ord) ==
    CASE f = "RemoveNode" -> RemoveNode(g, start, ord)
      [] f = "AddEdge" -> AddEdge(g, "new", start, end, Half, EmptyProps)
      [] f = "RemoveEdge" -> RemoveEdge(g, start, end)
      [] f = "GetEdge" ->
           LET r == GetEdge(g, start, end) IN [g |-> g, status |-> r.status, kind |-> r.kind]
      [] f = "OutgoingEdges" ->
           LET r == OutgoingEdges(g, start, ord)
           IN [g |-> g, status |-> r.status, kind |-> r.kind]
      [] f = "IncomingEdges" ->
           LET r == IncomingEdges(g, start, ord)
           IN [g |-> g, status |-> r.status, kind |-> r.kind]
      [] f = "MaxProbabilityPath" ->
           LET r == MaxProbabilityPath(g, start, end, ord)
           IN [g |-> g, status |-> r.status, kind |-> r.kind]
      [] f = "TopKMaxProbabilityPaths" ->
           LET r == TopKMaxProbabilityPaths(heap, base, start, end, 1, ord)
           IN [g |-> g, status |-> r.status, kind |-> r.kind]
      [] f = "ReachabilityProbability" ->
           LET r == ReachabilityProbability(g, start, end, ord)
           IN [g |-> g, status |-> r.status, kind |-> r.kind]

\* A store function or a kernel called with a node id the graph does not
\* hold, as its start (or only) node or as its end node.
KAbsentNode ==
    /\ kcall.op = "none"
    /\ \E f \in NodeCalls, p \in {<<Missing, "a">>, <<"a", Missing>>, <<Missing, Missing>>} :
        /\ f \in {"RemoveNode", "OutgoingEdges", "IncomingEdges"} => p = <<Missing, Missing>>
        /\ LET r == NodeCall(f, heap[base], p[1], p[2], <<"a", "b", "c">>)
           IN /\ kcall' = [op |-> "AbsentNode", f |-> f, start |-> p[1], end |-> p[2]]
              /\ kout' = [status |-> r.status, kind |-> r.kind]
              /\ heap' = [heap EXCEPT ![base] = r.g]
    /\ UNCHANGED <<base, session, ops, ret, concVars, mcVars>>

\* The query lines of the next action as the grammar captures them: the
\* lexer takes a keyword in any letter case, and a captured keyword (the State
\* of a condition item, the Mode of a REACHABILITY) is the text as typed.
KernASTs ==
    {ReachabilityProbabilityQuery("a", "c", mode, 0) :
        mode \in {"EXACT", "exact", "MONTECARLO", "montecarlo"}}
      \cup {ConditionalAST(<<ConditionItem("EDGE", "ab", state)>>,
                           ReachabilityProbabilityQuery("a", "b", "EXACT", 0)) :
              state \in {"ACTIVE", "active", "INACTIVE", "inactive"}}

\* Parser.ParseLine on a query line, with the graph of the call as the
\* session graph: convertGrammar, then InferenceEngine.Execute.
ParseLine(ast, ord) ==
    LET c == convertQuery(heap[base], ast)
    IN IF c.status # "ok"
       THEN [status |-> c.status, kind |-> c.kind, res |-> NoResult, clones |-> 0]
       ELSE KOut(Execute(heap, "live", c.q, base, ord))

KParseLine ==
    /\ kcall.op = "none"
    /\ \E ast \in KernASTs :
        /\ kcall' = [op |-> "ParseLine", ast |-> ast, ord |-> <<"a", "b", "c">>]
        /\ kout' = ParseLine(ast, <<"a", "b", "c">>)
    /\ UNCHANGED <<sessionVars, concVars, mcVars>>

\* ReachabilityProbabilityQuery.Execute in either mode with a start or an
\* end that the graph does not hold.
KReachQuery ==
    \E p \in {<<Missing, "a">>, <<"a", Missing>>, <<Missing, Missing>>},
       mode \in {"Exact", "MonteCarlo"} :
        KRun("ReachQuery", "live", ReachabilityProbabilityQuery(p[1], p[2], mode, 0),
             <<"a", "b", "c">>)

NextKernel ==
    \/ KReachQuery
    \/ KParseLine
    \/ KMaxPath
    \/ KTopK
    \/ KReach
    \/ KApplyCondition
    \/ KExecuteCancelled
    \/ KThreshold
    \/ KAggregate
    \/ KAbsentNode

SpecKernel == InitKernel /\ [][NextKernel]_vars

\* C11: in the graph ApplyCondition hands back, every edge listed in
\* ForcedActiveEdges is present with probability 1.
C11_ForcedActiveIsCertain ==
    (kcall.op = "ApplyCondition" /\ kout.status = "ok") =>
        \A i \in 1..Len(kcall.condition.ForcedActiveEdges) :
            LET e == kcall.condition.ForcedActiveEdges[i]
                c == heap[kout.ref]
            IN /\ ContainsEdge(c, e.From, e.To)
               /\ RatEq(c.out[e.From][e.To].Probability, One)
               /\ RatEq(c.edgeMap[e.ID].Probability, One)

\* The node sequences of at most three nodes, the simple paths of g from s
\* to t among them, and the product of the edge probabilities along one.
NodeSeqs == UNION {[1..n -> Nodes] : n \in 1..Cardinality(Nodes)}
IsPathOf(g, p) == \A i \in 1..(Len(p) - 1) : ContainsEdge(g, p[i], p[i + 1])
IsSimple(p) == \A i, j \in 1..Len(p) : p[i] = p[j] => i = j
SimplePathsOf(g, s, t) ==
    {p \in NodeSeqs : p[1] = s /\ p[Len(p)] = t /\ IsSimple(p) /\ IsPathOf(g, p)}
RECURSIVE ProductAlong(_, _)
ProductAlong(g, p) ==
    IF Len(p) < 2 THEN One
    ELSE RatMul(g.out[p[1]][p[2]].Probability, ProductAlong(g, Tail(p)))
\* The simple paths no edge of probability 0 lies on.
LivePathsOf(g, s, t) == {p \in SimplePathsOf(g, s, t) : RatLess(Zero, ProductAlong(g, p))}

C13_TopKSorted ==
    (kcall.op = "TopK" /\ kout.status = "ok") =>
        \A i \in 1..(Len(kout.paths) - 1) :
            RatLeq(kout.paths[i + 1].Probability, kout.paths[i].Probability)

\* C14: with K at least the number of simple paths from start to end, the
\* list holds every simple path, no node sequence twice, and nothing that is
\* not a simple path.
C14_TopKEnumeratesSimplePaths ==
    (/\ kcall.op = "TopK" /\ kout.status = "ok"
     /\ kcall.k >= Cardinality(SimplePathsOf(heap[base], kcall.start, kcall.end))) =>
        /\ \A p \in LivePathsOf(heap[base], kcall.start, kcall.end) :
                \E i \in 1..Len(kout.paths) : kout.paths[i].NodeIDs = p
        /\ \A i, j \in 1..Len(kout.paths) :
                kout.paths[i].NodeIDs = kout.paths[j].NodeIDs => i = j
        /\ \A i \in 1..Len(kout.paths) :
                /\ IsSimple(kout.paths[i].NodeIDs)
                /\ IsPathOf(heap[base], kout.paths[i].NodeIDs)

\* A graph with no cycle: no edge leads back to where a path began.
Acyclic(g) ==
    \A u, v \in Nodes :
        (u # v /\ SimplePathsOf(g, u, v) # {}) => ~ContainsEdge(g, v, u)

\* The recurrence: P(v) = 1 if v = end, else 1 - prod over the out-edges
\* (v, w) of (1 - p(v, w) * P(w)).  FailProduct is the product over the
\* out-neighbours ws of v.
RECURSIVE Recurrence(_, _, _)
RECURSIVE FailProduct(_, _, _, _)
Recurrence(g, v, end) ==
    IF v = end THEN One
    ELSE RatOneMinus(FailProduct(g, v, end, DOMAIN g.out[v]))
FailProduct(g, v, end, ws) ==
    IF ws = {} THEN One
    ELSE LET w == CHOOSE x \in ws : TRUE
         IN RatMul(RatOneMinus(RatMul(g.out[v][w].Probability, Recurrence(g, w, end))),
                   FailProduct(g, v, end, ws \ {w}))

ParallelOf(ps) == RatOneMinus(SeqProd([i \in 1..Len(ps) |-> RatOneMinus(ps[i])]))

\* C15: on an acyclic graph ReachabilityProbability hands back the value of
\* the recurrence; with one path from start to end that is the product of
\* its edge probabilities, with two parallel paths 1 - (1 - p1)(1 - p2).
C15_ExactIsRecurrence ==
    (kcall.op = "Reach" /\ Acyclic(heap[base])) =>
        LET g == heap[base]
            ps == SimplePathsOf(g, kcall.start, kcall.end)
        IN /\ kout.status = "ok"
           /\ RatEq(kout.val, Recurrence(g, kcall.start, kcall.end))
           /\ \A p \in ps : ps = {p} => RatEq(kout.val, ProductAlong(g, p))
           /\ \A p1, p2 \in ps :
                (ps = {p1, p2} /\ p1 # p2) =>
                    RatEq(kout.val, ParallelOf(<<ProductAlong(g, p1), ProductAlong(g, p2)>>))

\* Two parallel paths of probability 1/2 and 1/4: 1 - (1/2)(3/4) = 5/8.
C15_Witness ==
    /\ kcall.op = "Reach" /\ kout.status = "ok" /\ Acyclic(heap[base])
    /\ Cardinality(SimplePathsOf(heap[base], kcall.start, kcall.end)) = 2
    /\ kout.val = <<5, 8>>

\* What a query hands back on the graph of the call, uncancelled.
LiveOut(q) == Execute(heap, "live", q, base, kcall.ord).out

\* C18: with a context that is cancelled when Execute is called, every query
\* with a leaf sub-query hands back the context's error, and nothing was
\* computed for it: no graph was cloned and no kernel's result or error is
\* in what comes back.
C18_CancelledOnEntry ==
    kcall.op = "Cancelled" =>
        /\ kout.status = "err" /\ kout.kind = "Canceled"
        /\ kout.res = NoResult
        /\ kout.clones = 0

\* A cancelled composite that succeeds when it is run uncancelled, and then
\* clones the graph.
C18_Witness ==
    /\ kcall.op = "Cancelled" /\ kcall.q.type = "Multi"
    /\ LET live == Execute(heap, "live", kcall.q, base, kcall.ord)
       IN /\ live.out.status = "ok"
          /\ Cardinality(DOMAIN live.heap) > Cardinality(DOMAIN heap)
    /\ kout.status = "err"

\* The probability-bearing results and the probability each one bears.
BearsProbability(r) == r.kind \in {"probability", "sample", "path"}
ProbabilityOf(r) ==
    CASE r.kind = "probability" -> r.Probability
      [] r.kind = "sample" -> r.Sample.Estimate
      [] r.kind = "path" -> r.Path.Probability

\* C19: for a threshold t in [0, 1] and an inner query that succeeds with a
\* probability-bearing result, Threshold(t, q) hands back Boolean(TRUE) when
\* the probability is >= t and Boolean(FALSE) otherwise.
C19_ThresholdIsAtLeast ==
    (/\ kcall.op = "Threshold"
     /\ RatLeq(Zero, kcall.q.Threshold) /\ RatLeq(kcall.q.Threshold, One)
     /\ LiveOut(kcall.q.Inner).status = "ok"
     /\ BearsProbability(LiveOut(kcall.q.Inner).res)) =>
        /\ kout.status = "ok"
        /\ kout.res.kind = "boolean"
        /\ kout.res.Value <=>
              ~RatLess(ProbabilityOf(LiveOut(kcall.q.Inner).res), kcall.q.Threshold)

\* The probability equals the threshold and the answer is TRUE.
C19_Witness ==
    /\ kcall.op = "Threshold" /\ kcall.q.Threshold = Half
    /\ LiveOut(kcall.q.Inner).status = "ok"
    /\ BearsProbability(LiveOut(kcall.q.Inner).res)
    /\ ProbabilityOf(LiveOut(kcall.q.Inner).res) = Half
    /\ kout.status = "ok" /\ kout.res.Value

\* C20: Aggregate with the Mean reducer over sub-queries that succeed with
\* probability-bearing results hands back a ProbabilityResult holding the
\* arithmetic mean of their probabilities.
C20_MeanOfProbabilityBearing ==
    (/\ kcall.op = "Aggregate"
     /\ \A i \in 1..Len(kcall.q.Queries) :
            /\ LiveOut(kcall.q.Queries[i]).status = "ok"
            /\ BearsProbability(LiveOut(kcall.q.Queries[i]).res)) =>
        /\ kout.status = "ok"
        /\ kout.res.kind = "probability"
        /\ RatEq(kout.res.Probability,
                 RatDivInt(SeqSum([i \in 1..Len(kcall.q.Queries) |->
                                      ProbabilityOf(LiveOut(kcall.q.Queries[i]).res)]),
                           Len(kcall.q.Queries)))

\* The sub-queries whose results a Threshold or an Aggregate query checks.
SubQueriesOf(q) == IF q.type = "Threshold" THEN <<q.Inner>> ELSE q.Queries

\* C21: a Threshold or Aggregate query whose sub-queries all succeed, one of
\* them with a result that bears no probability (the PathsResult of a TopK),
\* fails with an error whose kind is TypeMismatch.
C21_TypeMismatchKind ==
    (/\ kcall.op \in {"Threshold", "Aggregate"}
     /\ \A i \in 1..Len(SubQueriesOf(kcall.q)) :
            LiveOut(SubQueriesOf(kcall.q)[i]).status = "ok"
     /\ \E i \in 1..Len(SubQueriesOf(kcall.q)) :
            ~BearsProbability(LiveOut(SubQueriesOf(kcall.q)[i]).res)) =>
        /\ kout.status = "err"
        /\ kout.kind = "TypeMismatch"

\* A Threshold query with t < 0 or t > 1 over an inner query that succeeds
\* with a probability-bearing result fails with the kind InvalidParameter.
C22_ThresholdOutOfRange ==
    (/\ kcall.op = "Threshold"
     /\ RatLess(kcall.q.Threshold, Zero) \/ RatLess(One, kcall.q.Threshold)
     /\ LiveOut(kcall.q.Inner).status = "ok"
     /\ BearsProbability(LiveOut(kcall.q.Inner).res)) =>
        kout.status = "err" /\ kout.kind = "InvalidParameter"

\* C22: an out-of-range parameter is reported with the kind InvalidParameter:
\* TopKMaxProbabilityPaths with K <= 0 and a Threshold query with t outside
\* [0, 1] each fail with an error of that kind.
C22_InvalidParameterKind ==
    /\ (kcall.op = "TopK" /\ kcall.k <= 0) =>
           kout.status = "err" /\ kout.kind = "InvalidParameter"
    /\ C22_ThresholdOutOfRange

\* C23: every store function and kernel that fails because a node it is
\* given is absent hands back an error of the one kind NodeDoesNotExist.
C23_OneNodeDoesNotExistKind ==
    (kcall.op = "AbsentNode" /\ kout.status = "err") => kout.kind = "NodeDoesNotExist"

\* A keyword in upper case, and a query line with its captured keywords in
\* upper case.
UpperKeyword(w) ==
    CASE w = "active" -> "ACTIVE"
      [] w = "inactive" -> "INACTIVE"
      [] w = "exact" -> "EXACT"
      [] w = "montecarlo" -> "MONTECARLO"
      [] OTHER -> w
UpperLine(ast) ==
    IF ast.type = "Cond"
    THEN [ast EXCEPT !.Conditions =
                [i \in 1..Len(@) |-> [@[i] EXCEPT !.State = UpperKeyword(@)]]]
    ELSE [ast EXCEPT !.Mode = UpperKeyword(@)]

\* C24: a query line gives what the same line with its keywords in upper
\* case gives, on the same session graph: the same query and the same result.
C24_KeywordCaseInsensitive ==
    kcall.op = "ParseLine" =>
        /\ LET typed == convertQuery(heap[base], kcall.ast)
               upper == convertQuery(heap[base], UpperLine(kcall.ast))
           IN /\ typed.status = upper.status /\ typed.kind = upper.kind
              /\ typed.status = "ok" => typed.q = upper.q
        /\ kout = ParseLine(UpperLine(kcall.ast), kcall.ord)

\* The EXACT / MONTECARLO mode alone is taken in any letter case.
C24_ModeCaseInsensitive ==
    (kcall.op = "ParseLine" /\ kcall.ast.type = "Reach") =>
        kout = ParseLine(UpperLine(kcall.ast), kcall.ord)

\* Task i has run its sub-query: taskOut[i] is what q.Execute handed back.
Executed(i) == taskPc[i] \in {"running", "sent", "done"}

\* C25: the reducer of a composite is called at most once, only when every
\* task has sent its result and the caller has received it, and never when a
\* sub-query handed back an error: the composite then returns the error of
\* one of its sub-queries.
C25_ReducerAfterBarrier ==
    /\ reduced <= 1
    /\ reduced = 1 =>
          /\ \A i \in Tasks : taskPc[i] = "done" /\ taskOut[i].status = "ok"
          /\ Len(arrived) = Len(queries) /\ resCh = <<>>
          /\ mainPc = "returned"
    /\ (mainPc = "returned" /\ \E i \in Tasks : Executed(i) /\ taskOut[i].status = "err") =>
          /\ reduced = 0
          /\ mainOut.status = "err"
          /\ \E j \in Tasks : /\ taskPc[j] \in {"sent", "done"}
                              /\ taskOut[j].status = "err"
                              /\ mainOut.kind = taskOut[j].kind

\* A sub-query failed after the result of another one was received: all
\* tasks have sent, the channel is closed, and the reducer was not called.
C25_Witness ==
    /\ mainPc = "returned" /\ closed /\ reduced = 0
    /\ Len(arrived) >= 2
    /\ \E i \in Tasks : taskOut[i].status = "err"
    /\ \E i \in Tasks : taskOut[i].status = "ok"
    /\ \A i \in Tasks : taskPc[i] = "done"

\* C26: a kernel that is running when the context is cancelled stops and its
\* query hands back the context's error: a task that is in its kernel with
\* the context done leaves it with the error Canceled.
C26_RunningKernelObservesCancel ==
    [][\A i \in Tasks :
          (taskPc[i] = "kernel" /\ ctxDone /\ taskPc'[i] = "running") =>
              (taskOut'[i].status = "err" /\ taskOut'[i].kind = "Canceled")]_vars

\* C27: a statement that returns an error leaves the graph it ran on as it
\* was before the statement.
C27_FailedStatementLeavesGraph ==
    [][(ops' = ops + 1 /\ ret'.op = "Statement" /\ ret'.status = "err") =>
            heap' = heap]_vars

\* A statement of one store call that returns an error leaves the graph as
\* it was: the graph changes under a failed statement only when a node was
\* added or removed by an earlier id of the same statement.
C27_FailedStatementKeepsEdges ==
    [][(ops' = ops + 1 /\ ret'.op = "Statement" /\ ret'.status = "err") =>
            \A x \in DOMAIN heap :
                heap'[x].nodeMap = heap[x].nodeMap => heap'[x] = heap[x]]_vars

(***************************************************************************)
(* ReachabilityProbabilityMonteCarlo as its goroutines run it: the caller  *)
(* starts numWorkers workers and then receives numWorkers times from the   *)
(* buffered channel results, returning at the first error.  A worker runs  *)
(* its trials and sends one workerResult.  The state after construction is *)
(* the one the spawn loop leaves: every worker started, none has run.      *)
(***************************************************************************)
NumWorkers == IF NumCPU < NumSamples THEN NumCPU ELSE NumSamples

\* results := make(chan workerResult, numWorkers)
McCapacity == NumWorkers

\* The start node "z" is in no graph: every trial of such a run fails.
InitWorkers ==
    /\ heap \in [{1} -> McGraphs]
    /\ base = 1
    /\ session = NoRef
    /\ ops = 0
    /\ ret = Ret("new", "ok", "")
    /\ ConcIdle
    /\ KernIdle
    /\ mcIn \in [start : {"a", "z"}, end : {"b", "c"}, seed : 0..MaxSeed]
    /\ mcRuns = <<>>
    /\ workers = [w \in 0..(NumWorkers - 1) |->
                    [pc |-> "run", out |-> NewWorker(mcIn.seed, w)]]
    /\ mcCh = <<>>
    /\ collector = [pc |-> "recv", i |-> 0, totalSuccesses |-> 0, totalTrials |-> 0]

\* The worker's loop over its trials, to the end or to the first error.
WorkerRun(w) ==
    /\ workers[w].pc = "run"
    /\ \E ord \in Orders :
        workers' = [workers EXCEPT ![w] =
            [pc |-> "send",
             out |-> RunWorker(heap[base], mcIn.start, mcIn.end, workers[w].out,
                               TrialsOf(NumSamples, NumWorkers, w), ord)]]
    /\ UNCHANGED <<sessionVars, concVars, kernVars, mcIn, mcRuns, mcCh, collector>>

\* results <- workerResult{...}, the worker's one send; then it returns.
WorkerSend(w) ==
    /\ workers[w].pc = "send"
    /\ Len(mcCh) < McCapacity
    /\ mcCh' = Append(mcCh, workers[w].out)
    /\ workers' = [workers EXCEPT ![w].pc = "exit"]
    /\ UNCHANGED <<sessionVars, concVars, kernVars, mcIn, mcRuns, collector>>

\* One pass of "for i := 0; i < numWorkers; i++ { r := <-results ... }" and,
\* after the last one, the return of the SampleResult.
CollectorReceive ==
    /\ collector.pc = "recv" /\ mcCh # <<>>
    /\ mcCh' = Tail(mcCh)
    /\ LET r == Head(mcCh)
           succ == collector.totalSuccesses + r.successes
           tot == collector.totalTrials + r.done
       IN IF r.status # "ok"
          THEN /\ collector' = [collector EXCEPT !.pc = "returned"]
               /\ mcRuns' = Append(mcRuns, [status |-> r.status, kind |-> r.kind,
                                            sample |-> SampleResult(0, 1, 0)])
          ELSE IF collector.i + 1 < NumWorkers
          THEN /\ collector' = [collector EXCEPT !.i = @ + 1, !.totalSuccesses = succ,
                                                 !.totalTrials = tot]
               /\ UNCHANGED mcRuns
          ELSE /\ collector' = [pc |-> "returned", i |-> collector.i + 1,
                                totalSuccesses |-> succ, totalTrials |-> tot]
               /\ mcRuns' = Append(mcRuns, [status |-> "ok", kind |-> "",
                                            sample |-> SampleResult(succ, tot, NumSamples)])
    /\ UNCHANGED <<sessionVars, concVars, kernVars, mcIn, workers>>

NextWorkers ==
    \/ \E w \in DOMAIN workers : WorkerRun(w)
    \/ \E w \in DOMAIN workers : WorkerSend(w)
    \/ CollectorReceive

\* One call of executeConcurrent or one call of
\* ReachabilityProbabilityMonteCarlo.
InitTasks == InitConc \/ InitWorkers

NextTasks == NextConc \/ NextWorkers

\* The steps of the started goroutines other than the receiving caller,
\* the runs of the kernels and of the trials aside.
TaskSteps ==
    \/ MainSpawn
    \/ MainSpawnCloser
    \/ CloserClose
    \/ \E i \in Tasks : TaskExecute(i) \/ TaskSend(i) \/ TaskDone(i)
    \/ \E w \in DOMAIN workers : WorkerSend(w)

\* Each sub-query and each worker's trials terminate.
KernelsTerminate ==
    /\ \A i \in 1..NumQueries : []<>(i \in Tasks => taskPc[i] # "kernel")
    /\ \A w \in 0..(NumWorkers - 1) : []<>(w \in DOMAIN workers => workers[w].pc # "run")

\* While a goroutine other than the receiving caller can take a step, one
\* of them is scheduled in the end; nothing is asked of the receiving
\* caller, which may have returned.
FairTasks == WF_vars(TaskSteps) /\ KernelsTerminate

SpecTasks == InitTasks /\ [][NextTasks]_vars /\ FairTasks

\* Every task of the composite has sent its result and returned, the closer
\* has closed the channel and returned, and every Monte-Carlo worker has
\* sent its result and returned.
AllExited ==
    /\ \A i \in Tasks : taskPc[i] = "done"
    /\ closed
    /\ \A w \in DOMAIN workers : workers[w].pc = "exit"

\* C28: every task the composite executor or Monte-Carlo reachability
\* starts sends its one result and exits, and the closer exits, whether or
\* not the caller still receives.
C28_NoTaskBlocksForever == <>[]AllExited

\* The caller returned on the first error it received while a task had not
\* sent yet; that task has sent since and every task and the closer exited.
C28_Witness ==
    \/ /\ queries # <<>> /\ AllExited
       /\ mainPc = "returned" /\ mainOut.status = "err"
       /\ resCh # <<>>
    \/ /\ workers # <<>> /\ AllExited
       /\ collector.pc = "returned" /\ collector.i = 0
       /\ mcCh # <<>>

(***************************************************************************)
(* One call of ReachabilityProbability on a graph of four nodes: s and t   *)
(* are the endpoints, x and y lie between them and may point at each       *)
(* other, so that a cycle can be met from either side.                     *)
(***************************************************************************)
ReachPairs == <<<<"s", "x">>, <<"s", "y">>, <<"x", "y">>,
                <<"y", "x">>, <<"x", "t">>, <<"y", "t">>>>
ReachEdgeIDs == <<"sx", "sy", "xy", "yx", "xt", "yt">>
ReachOrders == {<<"s", "x", "y", "t">>, <<"t", "y", "x", "s">>}

RECURSIVE ReachBuild(_, _, _)
ReachBuild(g, w, i) ==
    IF i > Len(ReachPairs) THEN g
    ELSE IF w[i] = Absent THEN ReachBuild(g, w, i + 1)
    ELSE ReachBuild(AddEdge(g, ReachEdgeIDs[i], ReachPairs[i][1], ReachPairs[i][2],
                            w[i], EmptyProps).g,
                    w, i + 1)

InitReach ==
    /\ heap \in {[x \in {1} |->
                    ReachBuild(CreateNodeStatement(CreateProbAdjListGraph,
                                                   <<"s", "x", "y", "t">>, SomeProps).g,
                               w, 1)] :
                 w \in [1..Len(ReachPairs) -> {Absent, Half, One}]}
    /\ base = 1
    /\ session = NoRef
    /\ ops = 0
    /\ ret = Ret("new", "ok", "")
    /\ ConcIdle
    /\ McIdle
    /\ KernIdle

\* inference.ReachabilityProbability(g, "s", "t"), the maps enumerated in one
\* of the orders.
RunReach ==
    /\ kcall.op = "none"
    /\ \E ord \in ReachOrders :
        LET r == ReachabilityProbability(heap[base], "s", "t", ord)
        IN /\ kcall' = KCall("ReachST", "s", "t", 0)
           /\ kout' = [status |-> r.status, kind |-> r.kind, val |-> r.val]
    /\ UNCHANGED <<sessionVars, concVars, mcVars>>

NextReach == RunReach

SpecReach == InitReach /\ [][NextReach]_vars

\* C29: exact reachability depends on the graph and the two endpoints only:
\* whatever order a run enumerates the outgoing edges of a node in, it hands
\* back the probability this run handed back.
C29_ExactIsOrderIndependent ==
    (kcall.op = "ReachST" /\ kout.status = "ok") =>
        \A ord \in ReachOrders :
            LET r == ReachabilityProbability(heap[base], "s", "t", ord)
            IN r.status = "ok" /\ RatEq(r.val, kout.val)

\* With neither edge between x and y the graph has no cycle and the order
\* does not matter.
C29_OnAcyclicGraphs ==
    (/\ kcall.op = "ReachST" /\ kout.status = "ok"
     /\ ~(ContainsEdge(heap[base], "x", "y") /\ ContainsEdge(heap[base], "y", "x"))) =>
        \A ord \in ReachOrders :
            LET r == ReachabilityProbability(heap[base], "s", "t", ord)
            IN r.status = "ok" /\ RatEq(r.val, kout.val)

\* C30: a Reachability query whose start or end node is not in the graph
\* fails with a node-does-not-exist error in both modes, and hands back no
\* probability.
C30_AbsentEndpointIsError ==
    kcall.op = "ReachQuery" =>
        /\ kout.status = "err"
        /\ kout.kind \in {"NodeDoesNotExist", "NodeDoesNotExists"}
        /\ kout.res = NoResult

\* The Monte-Carlo mode does reject every absent endpoint.
C30_MonteCarloRejectsAbsent ==
    (kcall.op = "ReachQuery" /\ kcall.q.Mode = "MonteCarlo") =>
        kout.status = "err" /\ kout.kind = "NodeDoesNotExist"

\* The Exact mode rejects an absent start that differs from the end, with the
\* store's error.
C30_ExactRejectsAbsentStart ==
    (/\ kcall.op = "ReachQuery" /\ kcall.q.Mode = "Exact"
     /\ kcall.q.Start = Missing /\ kcall.q.End # Missing) =>
        kout.status = "err" /\ kout.kind = "NodeDoesNotExists"

=============================================================================
